---- MODULE Spec2Model ----
(***************************************************************************)
(* Hospital management front-end: session, route guard chain, role         *)
(* dispatch, and the query cache / mutation layer of the feature views.    *)
(***************************************************************************)
EXTENDS Integers, Sequences, FiniteSets, TLC

VARIABLES
    isAuthenticated,   \* AuthContext flag read through useAuth()
    currentUser,       \* NoUser or [role, linkedStaffId]
    requested,         \* the path asked for by the last navigation
    location,          \* the router's current path, a sequence of segments
    view,              \* element rendered for location, or "resolving"
    sidebar,           \* what MainLayout.renderSidebar produced at the last render
    dashboard,         \* what DashboardDispatcher produced at the last render
    redirects,         \* <Navigate> redirects followed since the last navigation
    logoutCall,        \* server-side logout call: "idle", "pending", "failed", "done"
    authNotice,        \* notification raised by the last login / logout
    build,             \* which DashboardDispatcher file the bundle holds
    event,             \* the handler or callback that ran last
    mounted,           \* the feature view on screen, or "none"
    filter,            \* the mounted view's filter / search value ("" when unset)
    cache,             \* QueryClient cache: query key -> entry
    inflight,          \* fetches awaiting their response: [view, filter]
    obs,               \* what useQuery hands the mounted view
    server,            \* the API server's records
    mutations,         \* write requests awaiting their response
    toast,             \* the last notification a write request raised, and its cause
    lastSuccess,       \* per request, the data of its last successful response
    lastInvalidated,   \* the key prefixes invalidated by the last settled mutation
    issued,            \* number of write requests submitted so far
    started,           \* number of fetches the user's actions have started so far
    searchTerm,        \* PatientListPage: the search field's value
    timers,            \* PatientListPage: the debounce timers armed, by the term they carry
    changes,           \* search field changes since the debounce timer was last idle
    clock,             \* wall clock, in half seconds
    sent,              \* body of the last write request sent
    occupancy,         \* the server's current_occupancy of each room
    roomsData,         \* AdmissionCreatePage: the room options query's data
    roomsFetching,     \* a request for the room list is awaiting its response
    admissionPage,     \* "open" while AdmissionCreatePage is on screen, else "closed"
    values,            \* the admission form's field values
    errors,            \* the admission form's fields that carry an error message
    admitPatientMutation, \* the admission write: [isLoading, variables]
    admitted,          \* the last admission request sent, and whether its room was full
    notice,            \* the last notification the admission page raised
    failureCount,      \* per request in flight, the attempts that have failed so far
    modal,             \* the form or confirmation dialog that is open, or "none"
    fields,            \* the open form's field values, each a sequence of characters
    fieldErrors,       \* the fields of the open form that carry an error message
    pending,           \* a write submitted from a form awaits its response
    posted,            \* the last write a form submitted: its form and entity
    editing,           \* editingPatient / selectedAppointment: the entity the dialog is about
    modalToast,        \* the last notification a form's write raised
    isStatusModalOpen, \* MySchedulePage: the Update Status dialog is open
    selectedAppointment, \* MySchedulePage: the appointment the dialog is about
    statusValue,       \* MySchedulePage: the dialog's status field ("" for the placeholder)
    isUpdatingStatus,  \* MySchedulePage: the status form's formState.isSubmitting
    statusWrites,      \* MySchedulePage: status updates awaiting their response
    apptStatus,        \* MySchedulePage: the status shown in the appointment's row
    statusNotice,      \* MySchedulePage: the last notification a status update raised
    detailPage,        \* "open" while PatientDetailPage is on screen, else "closed"
    patientQuery,      \* the ['patient', patientId] query: [data, fetching, error]
    dependents,        \* the patient's appointments and treatments queries, by key
    patientLoaded,     \* a patient fetch has answered with a record
    dependentsIssued,  \* the dependent keys a fetch was ever issued for
    rowStatus,         \* MyTasksPage: the status shown in each task's row
    rowWrites,         \* status updates of rows awaiting their response
    rowMutation,       \* updateAssignmentStatusMutation as the page sees it
    rowIssued,         \* number of row status updates sent so far
    treatmentEntry,    \* the Log Treatment form on screen: "page", "modal" or "none"
    treatmentPending,  \* logTreatmentMutation.isLoading of the form on screen
    treatmentPosts,    \* the POST /treatment requests sent, in order
    treatmentToast     \* the last toast a Log Treatment form raised

navVars == <<isAuthenticated, currentUser, requested, location, view, sidebar, dashboard,
             redirects, logoutCall, authNotice, build>>

cacheVars == <<mounted, filter, cache, inflight, obs, server, mutations, toast,
               lastSuccess, lastInvalidated, issued, started>>

searchVars == <<searchTerm, timers, changes>>

taskVars == <<clock, sent>>

admissionVars == <<occupancy, roomsData, roomsFetching, admissionPage, values, errors,
                   admitPatientMutation, admitted, notice>>

modalVars == <<modal, fields, fieldErrors, pending, posted, editing, modalToast>>

formVars == <<admissionVars, modalVars>>

retryVars == <<failureCount>>

scheduleVars == <<isStatusModalOpen, selectedAppointment, statusValue, isUpdatingStatus,
                  statusWrites, apptStatus, statusNotice>>

detailVars == <<detailPage, patientQuery, dependents, patientLoaded, dependentsIssued>>

rowVars == <<rowStatus, rowWrites, rowMutation, rowIssued>>

treatVars == <<treatmentEntry, treatmentPending, treatmentPosts, treatmentToast>>

pageVars == <<scheduleVars, detailVars, rowVars, treatVars>>

vars == <<isAuthenticated, currentUser, requested, location, view, sidebar, dashboard,
          redirects, logoutCall, authNotice, build, event,
          mounted, filter, cache, inflight, obs, server, mutations, toast,
          lastSuccess, lastInvalidated, issued, started,
          searchTerm, timers, changes,
          clock, sent,
          occupancy, roomsData, roomsFetching, admissionPage, values, errors,
          admitPatientMutation, admitted, notice,
          failureCount,
          modal, fields, fieldErrors, pending, posted, editing, modalToast,
          isStatusModalOpen, selectedAppointment, statusValue, isUpdatingStatus,
          statusWrites, apptStatus, statusNotice,
          detailPage, patientQuery, dependents, patientLoaded, dependentsIssued,
          rowStatus, rowWrites, rowMutation, rowIssued,
          treatmentEntry, treatmentPending, treatmentPosts, treatmentToast>>

---------------------------------------------------------------------------
(* Session *)

KnownRoles == {"Admin", "Doctor", "Nurse", "Receptionist", "WardBoy", "BillingStaff"}

\* Role strings the server may hand out that no dashboard is written for.
\* "Patient" is named by an allowedRoles list of App.
OtherRoles == {"Patient", "Intern"}

Roles == KnownRoles \cup OtherRoles

NoUser == [role |-> "none", linkedStaffId |-> 0]

\* linkedStaffId values; 0 stands for an absent (falsy) link.
StaffIds == {0, 1}

Users == [role : Roles, linkedStaffId : StaffIds]

---------------------------------------------------------------------------
(* Role dispatcher *)

Null == "null"

\* The dispatcher with its default branch left out: an unmapped role yields nothing.
DashboardDispatcherNoDefault(user) ==
    IF user = NoUser THEN "LoadingUserData"
    ELSE CASE user.role = "Admin"        -> "AdminDashboardPage"
           [] user.role = "Doctor"       -> "DoctorDashboardPage"
           [] user.role = "Nurse"        -> "NurseDashboardPage"
           [] user.role = "Receptionist" -> "ReceptionistDashboardPage"
           [] user.role = "WardBoy"      -> "WardBoyDashboardPage"
           [] user.role = "BillingStaff" -> "BillingStaffDashboardPage"
           [] OTHER                      -> Null

\* DashboardDispatcher as shipped next to the dashboards (all six roles).
DashboardDispatcher(user) ==
    IF user = NoUser THEN "LoadingUserData"
    ELSE CASE user.role = "Admin"        -> "AdminDashboardPage"
           [] user.role = "Doctor"       -> "DoctorDashboardPage"
           [] user.role = "Nurse"        -> "NurseDashboardPage"
           [] user.role = "Receptionist" -> "ReceptionistDashboardPage"
           [] user.role = "WardBoy"      -> "WardBoyDashboardPage"
           [] user.role = "BillingStaff" -> "BillingStaffDashboardPage"
           [] OTHER                      -> "DashboardNotConfigured"

\* The earlier DashboardDispatcher file: only the Receptionist case is live.
DashboardDispatcherEarly(user) ==
    IF user = NoUser THEN "LoadingUserData"
    ELSE CASE user.role = "Receptionist" -> "ReceptionistDashboardPage"
           [] OTHER                      -> "DashboardNotConfigured"

Builds == {"full", "early"}

Dispatch(b, user) ==
    IF b = "full" THEN DashboardDispatcher(user) ELSE DashboardDispatcherEarly(user)

renderSidebar(auth, user) ==
    IF ~auth \/ user = NoUser THEN Null
    ELSE CASE user.role = "Admin"        -> "AdminSidebar"
           [] user.role = "Doctor"       -> "DoctorSidebar"
           [] user.role = "Nurse"        -> "NurseSidebar"
           [] user.role = "Receptionist" -> "ReceptionistSidebar"
           [] user.role = "WardBoy"      -> "WardBoySidebar"
           [] user.role = "BillingStaff" -> "BillingStaffSidebar"
           [] OTHER                      -> "NoSpecificSidebar"

---------------------------------------------------------------------------
(* Route table of App *)

\* A route of the <Routes> tree, flattened: its full path pattern, its element,
\* whether it sits under <ProtectedRoute> (and so under AuthenticatedAppLayout),
\* and the allowedRoles of the <RoleBasedRoute> that wraps it (gated = FALSE
\* when none does).
Route(pattern, element, protected, gated, allowedRoles) ==
    [pattern |-> pattern, element |-> element, protected |-> protected,
     gated |-> gated, allowedRoles |-> allowedRoles]

\* The public pair mounted under <ProtectedRoute> like every other route.
PublicUnderAuthGate(pattern, element) == Route(pattern, element, TRUE, FALSE, {})

Public(pattern, element) == Route(pattern, element, FALSE, FALSE, {})

Authed(pattern, element) == Route(pattern, element, TRUE, FALSE, {})

Gated(pattern, element, allowedRoles) == Route(pattern, element, TRUE, TRUE, allowedRoles)

NavigateToDashboard == "Navigate:/dashboard"

\* In the order React Router flattens the tree (document order).
AppRoutes == <<
    Public(<<>>, "LandingPage"),
    Public(<<"login">>, "LoginPage"),
    Authed(<<"dashboard">>, "DashboardDispatcher"),
    Gated(<<"patients">>, "PatientListPage",
          {"Receptionist", "Doctor", "Nurse", "WardBoy", "Admin"}),
    Gated(<<"patients", ":patientId">>, "PatientDetailPage",
          {"Receptionist", "Doctor", "Nurse", "WardBoy", "Admin"}),
    Gated(<<"patients", "new">>, "PatientCreatePage", {"Receptionist", "Admin"}),
    Gated(<<"appointments", "schedule">>, "AppointmentSchedulerPage",
          {"Receptionist", "Doctor", "Admin"}),
    Gated(<<"appointments", "manage">>, "ManageAppointmentsPage",
          {"Receptionist", "Doctor", "Nurse", "Admin"}),
    Gated(<<"appointments", "my">>, "MyAppointmentsPage", {"Doctor", "Patient"}),
    Authed(<<"appointments", ":appointmentId">>, "AppointmentDetailsPlaceholder"),
    Gated(<<"doctor", "my-schedule">>, "MySchedulePage", {"Doctor", "Admin"}),
    Gated(<<"assignments", "my-tasks">>, "MyTasksPage", {"Nurse", "WardBoy", "Doctor"}),
    Gated(<<"admin", "users">>, "UserManagementPage", {"Admin"}),
    Gated(<<"admin", "staff">>, "StaffManagementPage", {"Admin"}),
    Gated(<<"admin", "rooms">>, "RoomManagementPage", {"Admin"}),
    Gated(<<"admin", "services">>, "ServiceManagementPage", {"Admin"}),
    Gated(<<"billing", "generate">>, "GenerateBillPage", {"Admin", "BillingStaff"}),
    Gated(<<"billing", "payments", "new">>, "RecordPaymentPage", {"Admin", "BillingStaff"}),
    Gated(<<"billing", "manage-bills">>, "ManageBillsPage", {"Admin", "BillingStaff"}),
    Gated(<<"billing", "bills", ":billId">>, "ViewBillDetailsPage", {"Admin", "BillingStaff"}),
    Gated(<<"admissions", "new">>, "AdmissionCreatePage",
          {"Doctor", "Nurse", "Admin", "Receptionist"}),
    Gated(<<"admissions">>, "AdmissionPage", {"Doctor", "Nurse", "Admin", "Receptionist"}),
    Gated(<<"assignments", "new">>, "StaffAssignmentPage", {"Doctor", "Nurse", "Admin"}),
    Gated(<<"treatments", "log">>, "TreatmentLogPage", {"Doctor", "Nurse", "Admin"}),
    Authed(<<"profile", "settings">>, "ProfileSettingsPage"),
    Authed(<<"services", "view">>, "ViewServicesPage"),
    Gated(<<"wardboy", "reports", "new">>, "WardBoyReportsNewPage", {"WardBoy", "Admin"}),
    Authed(<<>>, NavigateToDashboard),
    Authed(<<"*">>, NavigateToDashboard)
>>

ParamSegments == {":patientId", ":appointmentId", ":billId"}

Splat == "*"

\* React Router's ranking of a route path: one point per segment (the leading
\* empty segment of an absolute path included), 10 per static segment, 3 per
\* dynamic segment, 1 per empty segment, and a penalty of 2 for a splat.
RECURSIVE SegmentScore(_)
SegmentScore(pattern) ==
    IF pattern = <<>> THEN 0
    ELSE (IF Head(pattern) = Splat THEN 0
          ELSE IF Head(pattern) \in ParamSegments THEN 3
          ELSE 10)
         + SegmentScore(Tail(pattern))

HasSplat(pattern) == \E i \in 1..Len(pattern) : pattern[i] = Splat

computeScore(pattern) ==
    (IF pattern = <<>> THEN 2 + 1 + 1 ELSE 1 + Len(pattern) + 1)
    + (IF HasSplat(pattern) THEN -2 ELSE 0)
    + SegmentScore(pattern)

\* Does the pattern match the path?  A splat matches any remainder.
RECURSIVE matchPath(_, _)
matchPath(pattern, path) ==
    IF pattern = <<>> THEN path = <<>>
    ELSE IF Head(pattern) = Splat THEN TRUE
    ELSE IF path = <<>> THEN FALSE
    ELSE /\ (Head(pattern) \in ParamSegments \/ Head(pattern) = Head(path))
         /\ matchPath(Tail(pattern), Tail(path))

\* matchRoutes: the matching branch of highest score, the earliest among equals.
\* The nested catch-all matches every path, so a match always exists.
MatchIndex(path) ==
    CHOOSE i \in 1..Len(AppRoutes) :
        /\ matchPath(AppRoutes[i].pattern, path)
        /\ \A j \in 1..Len(AppRoutes) :
              matchPath(AppRoutes[j].pattern, path) =>
                 \/ computeScore(AppRoutes[j].pattern) < computeScore(AppRoutes[i].pattern)
                 \/ /\ computeScore(AppRoutes[j].pattern) = computeScore(AppRoutes[i].pattern)
                    /\ i <= j

MatchRoute(path) == AppRoutes[MatchIndex(path)]

LoginPath == <<"login">>

DashboardPath == <<"dashboard">>

\* The paths a user may type or follow: every route of the table (a sample id for
\* the dynamic ones), a link that no route defines, and an unknown path.
Paths == {
    <<>>, <<"login">>, <<"dashboard">>,
    <<"patients">>, <<"patients", "7">>, <<"patients", "new">>,
    <<"appointments", "schedule">>, <<"appointments", "manage">>,
    <<"appointments", "my">>, <<"appointments", "7">>,
    <<"doctor", "my-schedule">>, <<"assignments", "my-tasks">>,
    <<"admin", "users">>, <<"admin", "staff">>, <<"admin", "rooms">>,
    <<"admin", "services">>,
    <<"billing", "generate">>, <<"billing", "payments", "new">>,
    <<"billing", "manage-bills">>, <<"billing", "bills", "7">>,
    <<"admissions", "new">>, <<"admissions">>, <<"assignments", "new">>,
    <<"treatments", "log">>, <<"treatments", "new">>,
    <<"profile", "settings">>, <<"services", "view">>,
    <<"wardboy", "reports", "new">>, <<"nowhere">> }

---------------------------------------------------------------------------
(* Route guard chain *)

Allow == [kind |-> "allow", to |-> <<>>]

Redirect(path) == [kind |-> "redirect", to |-> path]

\* AuthGate: allow if isAuthenticated, else redirect to /login.
ProtectedRoute(auth) == IF auth THEN Allow ELSE Redirect(LoginPath)

\* RoleGate: allow if currentUser.role is in allowedRoles, else redirect to /dashboard.
RoleBasedRoute(allowedRoles, user) ==
    IF user # NoUser /\ user.role \in allowedRoles THEN Allow ELSE Redirect(DashboardPath)

\* A route tree whose routes were left outside their RoleBasedRoute wrappers.
GuardChainNoRoleGate(route) ==
    IF route.protected THEN <<"ProtectedRoute">> ELSE <<>>

\* A route tree whose restricted routes were mounted outside ProtectedRoute.
GuardChainNoAuthGate(route) ==
    IF route.gated THEN <<"RoleBasedRoute">> ELSE <<>>

\* A route tree that nests ProtectedRoute inside each RoleBasedRoute.
GuardChainRoleGateFirst(route) ==
    (IF route.gated THEN <<"RoleBasedRoute">> ELSE <<>>)
    \o (IF route.protected THEN <<"ProtectedRoute">> ELSE <<>>)

\* The gates around a route, outermost first, as App nests them: ProtectedRoute
\* wraps the whole authenticated subtree, a RoleBasedRoute wraps its own routes.
GuardChain(route) ==
    (IF route.protected THEN <<"ProtectedRoute">> ELSE <<>>)
    \o (IF route.gated THEN <<"RoleBasedRoute">> ELSE <<>>)

\* Gates are rendered outermost first; the first one that redirects decides.
RECURSIVE RunGuards(_, _, _, _)
RunGuards(chain, route, auth, user) ==
    IF chain = <<>> THEN Allow
    ELSE LET verdict == IF Head(chain) = "ProtectedRoute"
                        THEN ProtectedRoute(auth)
                        ELSE RoleBasedRoute(route.allowedRoles, user)
         IN IF verdict.kind = "redirect" THEN verdict
            ELSE RunGuards(Tail(chain), route, auth, user)

\* The gates of the chain that are rendered: those up to and including the
\* first one that redirects.
RECURSIVE Evaluated(_, _, _, _)
Evaluated(chain, route, auth, user) ==
    IF chain = <<>> THEN <<>>
    ELSE LET verdict == IF Head(chain) = "ProtectedRoute"
                        THEN ProtectedRoute(auth)
                        ELSE RoleBasedRoute(route.allowedRoles, user)
         IN IF verdict.kind = "redirect" THEN <<Head(chain)>>
            ELSE <<Head(chain)>> \o Evaluated(Tail(chain), route, auth, user)

\* What rendering the current location yields: a redirect or the route's element.
Resolve(path, auth, user) ==
    LET route == MatchRoute(path)
        verdict == RunGuards(GuardChain(route), route, auth, user)
    IN IF verdict.kind = "redirect" THEN verdict
       ELSE IF route.element = NavigateToDashboard THEN Redirect(DashboardPath)
       ELSE Allow

MaxRedirects == 4

\* The redirects a navigation to the path goes through before a page renders,
\* followed for at most n of them.
RECURSIVE Hops(_, _, _, _)
Hops(path, auth, user, n) ==
    LET verdict == Resolve(path, auth, user)
    IN IF n = 0 \/ verdict.kind # "redirect" THEN 0
       ELSE 1 + Hops(verdict.to, auth, user, n - 1)

---------------------------------------------------------------------------
(* Session and navigation actions *)

navigate(to) ==
    /\ requested' = to
    /\ location' = to
    /\ view' = "resolving"
    /\ redirects' = 0
    /\ sidebar' = Null
    /\ dashboard' = Null

\* AuthContext.login succeeding: the session is created.
Login(user) ==
    /\ ~isAuthenticated
    /\ view = "LoginPage"
    /\ isAuthenticated' = TRUE
    /\ currentUser' = user
    /\ authNotice' = "login-ok"
    /\ navigate(location)
    /\ event' = "login"
    /\ UNCHANGED cacheVars
    /\ UNCHANGED <<logoutCall, build>>
    /\ UNCHANGED searchVars
    /\ UNCHANGED taskVars
    /\ UNCHANGED formVars
    /\ UNCHANGED <<retryVars, pageVars>>

\* AuthContext.login failing: no session is created.
LoginFail ==
    /\ ~isAuthenticated
    /\ view = "LoginPage"
    /\ authNotice' = "login-failed"
    /\ event' = "loginFailed"
    /\ UNCHANGED cacheVars
    /\ UNCHANGED <<isAuthenticated, currentUser, requested, location, view, sidebar, dashboard,
                   redirects, logoutCall, build>>
    /\ UNCHANGED searchVars
    /\ UNCHANGED taskVars
    /\ UNCHANGED formVars
    /\ UNCHANGED <<retryVars, pageVars>>

\* AuthContext.logout: clears the session at once, whatever the server call does.
logout ==
    /\ isAuthenticated' = FALSE
    /\ currentUser' = NoUser
    /\ authNotice' = "logout"
    /\ logoutCall' = "pending"

\* A logout handler that only navigates and never calls logout().
handleLogoutNavigateOnly ==
    /\ isAuthenticated
    /\ currentUser # NoUser
    /\ view # "resolving"
    /\ navigate(LoginPath)
    /\ event' = "handleLogout"
    /\ UNCHANGED cacheVars
    /\ UNCHANGED <<isAuthenticated, currentUser, authNotice, logoutCall, build>>
    /\ UNCHANGED searchVars
    /\ UNCHANGED taskVars
    /\ UNCHANGED formVars
    /\ UNCHANGED <<retryVars, pageVars>>

\* Navbar.handleLogout: logout(); navigate('/login').
handleLogout ==
    /\ isAuthenticated
    /\ currentUser # NoUser
    /\ view # "resolving"
    /\ logout
    /\ navigate(LoginPath)
    /\ event' = "handleLogout"
    /\ UNCHANGED cacheVars
    /\ UNCHANGED build
    /\ UNCHANGED searchVars
    /\ UNCHANGED taskVars
    /\ UNCHANGED formVars
    /\ UNCHANGED <<retryVars, pageVars>>

\* The server-side logout call settles, either way.
LogoutCallSettles(outcome) ==
    /\ logoutCall = "pending"
    /\ logoutCall' = outcome
    /\ event' = "logoutCallSettled"
    /\ UNCHANGED cacheVars
    /\ UNCHANGED <<isAuthenticated, currentUser, requested, location, view, sidebar, dashboard,
                   redirects, authNotice, build>>
    /\ UNCHANGED searchVars
    /\ UNCHANGED taskVars
    /\ UNCHANGED formVars
    /\ UNCHANGED <<retryVars, pageVars>>

\* The user follows a link or types a path.
Navigate(path) ==
    /\ view # "resolving"
    /\ navigate(path)
    /\ event' = "navigate"
    /\ UNCHANGED cacheVars
    /\ UNCHANGED <<isAuthenticated, currentUser, logoutCall, authNotice, build>>
    /\ UNCHANGED searchVars
    /\ UNCHANGED taskVars
    /\ UNCHANGED formVars
    /\ UNCHANGED <<retryVars, pageVars>>

\* One render of <Routes> for the current location.
Render ==
    /\ view = "resolving"
    /\ LET route == MatchRoute(location)
           verdict == Resolve(location, isAuthenticated, currentUser)
       IN IF verdict.kind = "redirect"
          THEN /\ redirects < MaxRedirects
               /\ location' = verdict.to
               /\ redirects' = redirects + 1
               /\ UNCHANGED <<view, sidebar, dashboard>>
          ELSE /\ view' = route.element
               /\ sidebar' = IF route.protected
                             THEN renderSidebar(isAuthenticated, currentUser)
                             ELSE Null
               /\ dashboard' = IF route.element = "DashboardDispatcher"
                               THEN Dispatch(build, currentUser)
                               ELSE Null
               /\ UNCHANGED <<location, redirects>>
    /\ event' = "render"
    /\ UNCHANGED cacheVars
    /\ UNCHANGED <<isAuthenticated, currentUser, requested, logoutCall, authNotice, build>>
    /\ UNCHANGED searchVars
    /\ UNCHANGED taskVars
    /\ UNCHANGED formVars
    /\ UNCHANGED <<retryVars, pageVars>>

\* The links a sidebar renders: its navigation items and its footer link.
\* ReceptionistSidebar is not among the sources, and the placeholder has none.
SidebarLinks(bar) ==
    CASE bar = "AdminSidebar" ->
            {<<"dashboard">>, <<"admin", "users">>, <<"admin", "staff">>, <<"admin", "rooms">>,
             <<"admin", "admissions">>, <<"admin", "services">>, <<"profile", "settings">>}
      [] bar = "DoctorSidebar" ->
            {<<"dashboard">>, <<"doctor", "my-schedule">>, <<"patients">>, <<"help">>}
      [] bar \in {"NurseSidebar", "WardBoySidebar"} ->
            {<<"dashboard">>, <<"assignments", "my-tasks">>, <<"patients">>,
             <<"profile", "settings">>}
      [] bar = "BillingStaffSidebar" ->
            {<<"dashboard">>, <<"billing", "generate">>, <<"billing", "payment">>,
             <<"billing", "manage-bills">>, <<"services", "view">>, <<"profile", "settings">>}
      [] OTHER -> {}

\* The user follows a link of the sidebar on screen.
FollowSidebarLink(link) ==
    /\ view # "resolving"
    /\ sidebar # Null
    /\ link \in SidebarLinks(sidebar)
    /\ navigate(link)
    /\ event' = "followLink"
    /\ UNCHANGED cacheVars
    /\ UNCHANGED <<isAuthenticated, currentUser, logoutCall, authNotice, build>>
    /\ UNCHANGED searchVars
    /\ UNCHANGED taskVars
    /\ UNCHANGED formVars
    /\ UNCHANGED <<retryVars, pageVars>>

NavNext ==
    \/ \E user \in Users : Login(user)
    \/ LoginFail
    \/ handleLogout
    \/ \E outcome \in {"done", "failed"} : LogoutCallSettles(outcome)
    \/ \E path \in Paths : Navigate(path)
    \/ Render

---------------------------------------------------------------------------
(* Query keys and fetches of the feature views *)

ListViews == {"PatientListPage", "ManageAppointmentsPage", "MySchedulePage",
              "DoctorDashboardPage", "MyTasksPage", "NurseDashboardPage"}

Views == ListViews \cup {"AppointmentSchedulerPage"}

\* The session carries its bearer token for as long as it is authenticated.
HasToken == isAuthenticated

\* A view is reachable when its route's gates allow the session, or, for a
\* dashboard, when the dispatcher picks it.
CanMount(v, b, auth, user) ==
    \/ \E i \in 1..Len(AppRoutes) :
          /\ AppRoutes[i].element = v
          /\ RunGuards(GuardChain(AppRoutes[i]), AppRoutes[i], auth, user) = Allow
    \/ auth /\ Dispatch(b, user) = v

\* The filter values tried per view: the unset filter and one set value.
FiltersOf(v) ==
    CASE v = "PatientListPage"        -> {"", "Jane", "Jane D"}
      [] v = "ManageAppointmentsPage" -> {"", "Scheduled"}
      [] v = "MySchedulePage"         -> {"", "Scheduled"}
      [] v = "MyTasksPage"            -> {"", "Pending"}
      [] OTHER                        -> {""}

ParamName(v) == IF v = "PatientListPage" THEN "search" ELSE "status"

\* URLSearchParams(...).toString(): the list of name=value pairs appended,
\* nothing for an unset filter.
queryParams(v, user, f) ==
    IF v = "MySchedulePage" /\ user.linkedStaffId = 0 THEN <<>>
    ELSE IF f = "" THEN <<>>
    ELSE << <<ParamName(v), f>> >>

Today == "today"

\* A query key that leaves the filter parameters out.
QueryKeyWithoutParams(v, user, f) ==
    CASE v = "PatientListPage"        -> <<"patients">>
      [] v = "ManageAppointmentsPage" -> <<"appointments">>
      [] v = "MySchedulePage"         -> <<"doctorAppointments", user.linkedStaffId>>
      [] v = "DoctorDashboardPage"    -> <<"todaysAppointmentsForDoctor", user.linkedStaffId, Today>>
      [] v = "MyTasksPage"            -> <<"myAssignments", user.linkedStaffId>>
      [] v = "NurseDashboardPage"     -> <<"myActiveAssignments", user.linkedStaffId>>

\* queryKey of the view's list query.
QueryKey(v, user, f) ==
    CASE v = "PatientListPage"        -> <<"patients", queryParams(v, user, f)>>
      [] v = "ManageAppointmentsPage" -> <<"appointments", queryParams(v, user, f)>>
      [] v = "MySchedulePage"         ->
            <<"doctorAppointments", user.linkedStaffId, queryParams(v, user, f)>>
      [] v = "DoctorDashboardPage"    ->
            <<"todaysAppointmentsForDoctor", user.linkedStaffId, Today>>
      [] v = "MyTasksPage"            ->
            <<"myAssignments", user.linkedStaffId, queryParams(v, user, f)>>
      [] v = "NurseDashboardPage"     -> <<"myActiveAssignments", user.linkedStaffId>>

\* A list query enabled by the token alone.
EnabledByTokenOnly(v, auth, user) ==
    CASE v \in ListViews -> auth
      [] OTHER -> FALSE

\* enabled: of the view's list query.
Enabled(v, auth, user) ==
    CASE v \in {"PatientListPage", "ManageAppointmentsPage"} -> auth
      [] v \in {"MySchedulePage", "DoctorDashboardPage", "NurseDashboardPage"} ->
            auth /\ user.linkedStaffId # 0
      [] v = "MyTasksPage" ->
            auth /\ user.linkedStaffId # 0 /\ user.role \in {"Nurse", "WardBoy"}
      [] OTHER -> FALSE

\* The views whose list is scoped to the staff member of the session.
StaffViews == {"MyTasksPage", "NurseDashboardPage", "MySchedulePage", "DoctorDashboardPage"}

\* The early return of a staff-scoped view: the Profile Not Linked panel is
\* rendered in place of the page (currentUser carries no isLoading field).
ProfileNotLinked(v, user) ==
    CASE v = "MyTasksPage" -> user.linkedStaffId = 0 /\ user.role \in {"Nurse", "WardBoy"}
      [] v = "NurseDashboardPage" -> user.linkedStaffId = 0 /\ user.role = "Nurse"
      [] v \in {"MySchedulePage", "DoctorDashboardPage"} -> user.linkedStaffId = 0
      [] OTHER -> FALSE

KeepsPreviousData(v) == v \in {"PatientListPage", "MySchedulePage"}

\* The view renders an error panel in place of the table when its query failed.
HasErrorBranch(v) == v # "ManageAppointmentsPage"

Requests == UNION {{[view |-> v, filter |-> f] : f \in FiltersOf(v)} : v \in ListViews}

AllKeys(user) == {QueryKey(r.view, user, r.filter) : r \in Requests}

---------------------------------------------------------------------------
(* The API server, as the client sees it *)

PatientNames == {"Jane", "Mary"}

AppointmentStatuses == {"Scheduled", "Checked-In", "In Progress", "Completed"}

Slots == {"09:00", "10:00"}

TaskStatuses == {"Pending", "In Progress", "Completed"}

Row(kind, status, detail) == [kind |-> kind, status |-> status, detail |-> detail]

\* The rows the server returns for a view's request, after the view's queryFn.
Rows(v, f, srv) ==
    CASE v = "PatientListPage" ->
            IF srv.patient.present /\ (f = "" \/ f = srv.patient.name)
            THEN {Row("patient", "active", srv.patient.name)} ELSE {}
      [] v \in {"ManageAppointmentsPage", "MySchedulePage"} ->
            IF f = "" \/ f = srv.appt.status
            THEN {Row("appointment", srv.appt.status, srv.appt.slot)} ELSE {}
      [] v = "DoctorDashboardPage" ->
            IF srv.appt.status \in {"Scheduled", "Checked-In", "In Progress"}
            THEN {Row("appointment", srv.appt.status, srv.appt.slot)} ELSE {}
      [] v \in {"MyTasksPage", "NurseDashboardPage"} ->
            IF f = "" \/ f = srv.task.status
            THEN {Row("task", srv.task.status, "")} ELSE {}

Response(v, user, f, srv) == [params |-> queryParams(v, user, f), rows |-> Rows(v, f, srv)]

NoData == [params |-> <<>>, rows |-> {}]

\* A cache entry (a Query of the QueryClient).
EmptyEntry == [hasData |-> FALSE, data |-> NoData, error |-> FALSE, isInvalidated |-> FALSE]

\* What useQuery returns: the data, the key it was fetched under, the error flag.
NoResult == [hasData |-> FALSE, data |-> NoData, from |-> <<>>, error |-> FALSE]

ResultOf(entry, key) ==
    [hasData |-> entry.hasData, data |-> entry.data,
     from |-> IF entry.hasData THEN key ELSE <<>>, error |-> entry.error]

ActiveKey == QueryKey(mounted, currentUser, filter)

ActiveRequest == [view |-> mounted, filter |-> filter]

isLoading == ~obs.hasData /\ ~obs.error

MaxInFlight == 2

\* Fetches started by the user (opening a view, filtering, refocusing) in one run.
MaxFetches == 3

\* A fetch starts for the request unless one for its key is already running;
\* a query that has no data yet goes back to the loading state.
StartFetch(c, req) ==
    LET k == QueryKey(req.view, currentUser, req.filter)
    IN [c EXCEPT ![k].error = IF c[k].hasData THEN c[k].error ELSE FALSE]

\* The observer's result when the view subscribes to key k, given what it showed.
Observe(v, c, k, shown, keyChanged) ==
    IF c[k].hasData THEN ResultOf(c[k], k)
    ELSE IF keyChanged /\ KeepsPreviousData(v) /\ shown.hasData /\ ~shown.error
         THEN shown
    ELSE ResultOf(c[k], k)

\* A debounce whose calls each arm a timer of their own.
debounceNoClear(armed, term) == armed \cup {term}

\* debounce(func, delay): a call clears the timer armed by the previous call and
\* arms one that will hand its own argument to func.
debounce(armed, term) == {term}

\* The user opens a feature view (leaving the one on screen).  The patient
\* list's effect hands the initial search term to the debounced setter.
Mount(v) ==
    /\ v \in Views
    /\ v # mounted
    /\ CanMount(v, build, isAuthenticated, currentUser)
    /\ mounted' = v
    /\ filter' = ""
    /\ IF v \in ListViews
       THEN LET req == [view |-> v, filter |-> ""]
                k == QueryKey(v, currentUser, "")
                fetches == Enabled(v, isAuthenticated, currentUser)
                starts == fetches /\ req \notin inflight
            IN /\ starts => (Cardinality(inflight) < MaxInFlight /\ started < MaxFetches)
               /\ cache' = IF fetches THEN StartFetch(cache, req) ELSE cache
               /\ inflight' = IF fetches THEN inflight \cup {req} ELSE inflight
               /\ started' = IF starts THEN started + 1 ELSE started
               /\ obs' = Observe(v, cache', k, NoResult, FALSE)
       ELSE /\ obs' = NoResult
            /\ UNCHANGED <<cache, inflight, started>>
    /\ searchTerm' = ""
    /\ timers' = IF v = "PatientListPage" THEN debounce({}, "") ELSE {}
    /\ changes' = 0
    /\ event' = "mount"
    /\ UNCHANGED <<server, mutations, toast, lastSuccess, lastInvalidated>>
    /\ UNCHANGED <<navVars, issued>>
    /\ UNCHANGED taskVars
    /\ UNCHANGED formVars
    /\ UNCHANGED <<retryVars, pageVars>>

\* Views whose callbacks live in useMutation options (re-read at every render);
\* the others await axios inside a submit handler that closed over queryParams.
UsesMutationHook(v) == v \notin {"ManageAppointmentsPage", "AppointmentSchedulerPage"}

\* The mounted view's query parameters become those of filter value f: the
\* query key changes and the query under the new key is fetched.
ChangeFilter(f) ==
    /\ mounted \in ListViews
    /\ f \in FiltersOf(mounted)
    /\ f # filter
    /\ filter' = f
    /\ LET req == [view |-> mounted, filter |-> f]
           k == QueryKey(mounted, currentUser, f)
           fetches == Enabled(mounted, isAuthenticated, currentUser)
           starts == fetches /\ req \notin inflight
       IN /\ starts => (Cardinality(inflight) < MaxInFlight /\ started < MaxFetches)
          /\ cache' = IF fetches THEN StartFetch(cache, req) ELSE cache
          /\ inflight' = IF fetches THEN inflight \cup {req} ELSE inflight
          /\ started' = IF starts THEN started + 1 ELSE started
          /\ obs' = Observe(mounted, cache', k, obs, k # ActiveKey)
    /\ mutations' = {IF UsesMutationHook(m.view) /\ m.view = mounted
                      THEN [m EXCEPT !.filter = f] ELSE m : m \in mutations}
    /\ UNCHANGED <<mounted, server, toast, lastSuccess, lastInvalidated>>
    /\ UNCHANGED <<navVars, issued>>
    /\ UNCHANGED taskVars
    /\ UNCHANGED formVars
    /\ UNCHANGED <<retryVars, pageVars>>

\* The user changes the filter of the view; on the patient list, types a search
\* term and leaves the field alone until the debounce timer has fired.
SetFilter(f) ==
    /\ (mounted = "MyTasksPage" => ~isLoading)
    /\ ChangeFilter(f)
    /\ IF mounted = "PatientListPage"
       THEN searchTerm' = f /\ timers' = {} /\ changes' = 1
       ELSE UNCHANGED searchVars
    /\ event' = "setFilter"

SearchTerms == FiltersOf("PatientListPage")

\* Field changes followed within one burst of typing.
MaxChanges == 3

\* handleSearchChange: the field takes the typed value and the effect on
\* searchTerm hands it to the debounced setter.
handleSearchChange(term) ==
    /\ mounted = "PatientListPage"
    /\ term \in SearchTerms
    /\ term # searchTerm
    /\ changes < MaxChanges
    /\ searchTerm' = term
    /\ timers' = debounce(timers, term)
    /\ changes' = IF timers = {} THEN 1 ELSE changes + 1
    /\ event' = "type"
    /\ UNCHANGED <<navVars, cacheVars>>
    /\ UNCHANGED taskVars
    /\ UNCHANGED formVars
    /\ UNCHANGED <<retryVars, pageVars>>

\* A debounce timer runs out: setDebouncedSearchTerm(term).  Setting the term
\* already in effect renders nothing anew.
TimerFires(term) ==
    /\ mounted = "PatientListPage"
    /\ term \in timers
    /\ timers' = timers \ {term}
    /\ IF term # filter THEN ChangeFilter(term) ELSE UNCHANGED <<navVars, cacheVars, taskVars, formVars, retryVars, pageVars>>
    /\ event' = "timer"
    /\ UNCHANGED <<searchTerm, changes>>

\* A response for any key of a list view reaches the view on screen.
NotifiesAnyKey(k) == mounted \in ListViews

\* The view's observer is subscribed to the query of its current key only.
Notifies(k) == mounted \in ListViews /\ k = ActiveKey

\* A fetch comes back with the server's answer.
FetchSucceed(req) ==
    /\ req \in inflight
    /\ LET k == QueryKey(req.view, currentUser, req.filter)
           data == Response(req.view, currentUser, req.filter, server)
       IN /\ cache' = [cache EXCEPT ![k] = [hasData |-> TRUE, data |-> data,
                                            error |-> FALSE, isInvalidated |-> FALSE]]
          /\ lastSuccess' = [lastSuccess EXCEPT ![req] = [has |-> TRUE, data |-> data]]
          /\ obs' = IF Notifies(k) THEN ResultOf(cache'[k], k) ELSE obs
    /\ inflight' = inflight \ {req}
    /\ event' = "fetchSucceeded"
    /\ UNCHANGED <<mounted, filter, server, mutations, toast, lastInvalidated>>
    /\ UNCHANGED <<navVars, issued, started>>
    /\ UNCHANGED searchVars
    /\ UNCHANGED taskVars
    /\ UNCHANGED formVars
    /\ failureCount' = [failureCount EXCEPT ![req] = 0]
    /\ UNCHANGED pageVars

\* A fetch fails (network or server error).
FetchFail(req) ==
    /\ req \in inflight
    /\ LET k == QueryKey(req.view, currentUser, req.filter)
       IN /\ cache' = [cache EXCEPT ![k].error = TRUE]
          /\ obs' = IF Notifies(k) THEN ResultOf(cache'[k], k) ELSE obs
    /\ inflight' = inflight \ {req}
    /\ event' = "fetchFailed"
    /\ UNCHANGED <<mounted, filter, server, mutations, toast, lastSuccess, lastInvalidated>>
    /\ UNCHANGED <<navVars, issued, started>>
    /\ UNCHANGED searchVars
    /\ UNCHANGED taskVars
    /\ UNCHANGED formVars
    /\ failureCount' = [failureCount EXCEPT ![req] = 0]
    /\ UNCHANGED pageVars

\* QueryClient default for queries: a failed fetch is tried again this many times.
retry == 3

\* One attempt of a fetch fails and attempts are left: the query client sends
\* the request again after its delay; the view still sees the fetch as running.
FetchAttemptFails(req) ==
    /\ req \in inflight
    /\ failureCount[req] < retry
    /\ failureCount' = [failureCount EXCEPT ![req] = @ + 1]
    /\ UNCHANGED pageVars
    /\ event' = "retry"
    /\ UNCHANGED <<navVars, cacheVars, searchVars, taskVars, formVars>>

\* refetchInterval / refetchOnWindowFocus: the active query is fetched again.
Revalidate ==
    /\ mounted \in ListViews
    /\ Enabled(mounted, isAuthenticated, currentUser)
    /\ ActiveRequest \notin inflight
    /\ Cardinality(inflight) < MaxInFlight
    /\ started < MaxFetches
    /\ started' = started + 1
    /\ inflight' = inflight \cup {ActiveRequest}
    /\ cache' = StartFetch(cache, ActiveRequest)
    /\ obs' = [obs EXCEPT !.error = IF obs.hasData THEN obs.error ELSE FALSE]
    /\ event' = "revalidate"
    /\ UNCHANGED <<mounted, filter, server, mutations, toast, lastSuccess, lastInvalidated>>
    /\ UNCHANGED <<navVars, issued>>
    /\ UNCHANGED searchVars
    /\ UNCHANGED taskVars
    /\ UNCHANGED formVars
    /\ UNCHANGED <<retryVars, pageVars>>

\* What the view puts in its table: nothing while loading or in its error state.
Displayed ==
    IF ~obs.hasData \/ (obs.error /\ HasErrorBranch(mounted)) THEN NoResult ELSE obs

\* The branch of the list view's render that is taken: the spinner, the error
\* panel, the table, or the "nothing found" panel.
Rendered ==
    IF mounted \notin ListViews THEN "none"
    ELSE IF isLoading THEN "loading"
    ELSE IF obs.error /\ HasErrorBranch(mounted) THEN "error"
    ELSE IF obs.hasData /\ obs.data.rows # {} THEN "table"
    ELSE "empty"

---------------------------------------------------------------------------
(* Mutations of the feature views *)

Mutation(v, kind, f, input) == [view |-> v, kind |-> kind, filter |-> f, input |-> input]

canManagePatientsAnyRole(user) == user.role # "none"

canManagePatients(user) == user.role = "Admin" \/ user.role = "Receptionist"

ShownStatuses == {r.status : r \in Displayed.data.rows}

\* A dashboard row that keeps its Start button once the consultation runs.
showsStartConsultationUntilCompleted(status) == status \in {"Checked-In", "In Progress"}

\* Doctor's dashboard: the row's Start Consultation button is rendered.
showsStartConsultation(status) == status = "Checked-In"

\* Doctor's dashboard: the row's Complete & Log Treatment button is rendered.
showsCompleteConsultation(status) == status = "Checked-In" \/ status = "In Progress"

\* Task views: the row's Start Task button is rendered.
showsStartTask(status) == status = "Pending"

\* Task views: the row's Complete Task button is rendered.
showsCompleteTask(status) == status = "In Progress"

\* The write requests the mounted view lets the user issue, given what it shows.
AvailableMutations ==
    CASE mounted = "PatientListPage" ->
            IF ~canManagePatients(currentUser) THEN {}
            ELSE {Mutation(mounted, "createPatient", filter, "Jane")}
                 \cup (IF Displayed.data.rows = {} THEN {}
                       ELSE {Mutation(mounted, "updatePatient", filter, "Mary")}
                            \cup {Mutation(mounted, "deletePatient", filter, "")})
      [] mounted = "ManageAppointmentsPage" ->
            IF Displayed.data.rows = {}
               \/ currentUser.role \notin {"Admin", "Receptionist", "Doctor"} THEN {}
            ELSE {Mutation(mounted, "reschedule", filter, "10:00")}
                 \cup {Mutation(mounted, "updateStatus", filter, st) :
                          st \in {"Scheduled", "Completed"}}
      [] mounted = "MySchedulePage" ->
            IF ShownStatuses \cap {"Scheduled", "Checked-In", "In Progress"} = {} THEN {}
            ELSE {Mutation(mounted, "updateStatus", filter, st) :
                          st \in {"Scheduled", "Completed"}}
      [] mounted = "DoctorDashboardPage" ->
            (IF \E st \in ShownStatuses : showsStartConsultation(st)
             THEN {Mutation(mounted, "updateStatus", filter, "In Progress")} ELSE {})
            \cup (IF \E st \in ShownStatuses : showsCompleteConsultation(st)
                  THEN {Mutation(mounted, "updateStatus", filter, "Completed")} ELSE {})
      [] mounted \in {"MyTasksPage", "NurseDashboardPage"} ->
            (IF \E st \in ShownStatuses : showsStartTask(st)
             THEN {Mutation(mounted, "updateTaskStatus", filter, "In Progress")} ELSE {})
            \cup (IF \E st \in ShownStatuses : showsCompleteTask(st)
                  THEN {Mutation(mounted, "updateTaskStatus", filter, "Completed")} ELSE {})
      [] mounted = "AppointmentSchedulerPage" ->
            {Mutation(mounted, "createAppointment", filter, "10:00")}
      [] OTHER -> {}

\* The server applies a write.
Apply(srv, m) ==
    CASE m.kind = "createPatient" ->
            [srv EXCEPT !.patient = [present |-> TRUE, name |-> m.input]]
      [] m.kind = "updatePatient" ->
            [srv EXCEPT !.patient.name = m.input]
      [] m.kind = "deletePatient" ->
            [srv EXCEPT !.patient.present = FALSE]
      [] m.kind = "reschedule" ->
            [srv EXCEPT !.appt.slot = m.input]
      [] m.kind = "updateStatus" ->
            [srv EXCEPT !.appt.status = m.input]
      [] m.kind = "updateTaskStatus" ->
            [srv EXCEPT !.task.status = m.input]
      [] m.kind = "createAppointment" ->
            [srv EXCEPT !.appt = [status |-> "Scheduled", slot |-> m.input]]

\* The key prefixes the view's success path hands to invalidateQueries.
InvalidatedOnSuccess(m, user) ==
    CASE m.view = "PatientListPage" ->
            {<<"patients", queryParams(m.view, user, m.filter)>>}
      [] m.view = "ManageAppointmentsPage" ->
            {<<"appointments", queryParams(m.view, user, m.filter)>>}
      [] m.view = "MySchedulePage" ->
            {<<"doctorAppointments", user.linkedStaffId, queryParams(m.view, user, m.filter)>>,
             <<"todaysAppointmentsForDoctor", user.linkedStaffId>>}
      [] m.view = "DoctorDashboardPage" ->
            {<<"todaysAppointmentsForDoctor", user.linkedStaffId>>}
      [] m.view = "MyTasksPage" ->
            {<<"myAssignments", user.linkedStaffId, queryParams(m.view, user, m.filter)>>,
             <<"myActiveAssignments", user.linkedStaffId>>}
      [] m.view = "NurseDashboardPage" ->
            {<<"myActiveAssignments", user.linkedStaffId>>}
      [] OTHER -> {}

\* An error path that invalidates what the success path invalidates.
InvalidatedOnErrorAsOnSuccess(m, user) == InvalidatedOnSuccess(m, user)

\* The key prefixes handed to invalidateQueries when the request failed.
InvalidatedOnError(m, user) == {}

\* Partial query-key matching: the filter key is a prefix of the query's key.
RECURSIVE IsPrefix(_, _)
IsPrefix(p, k) ==
    IF p = <<>> THEN TRUE
    ELSE IF k = <<>> THEN FALSE
    ELSE IF Head(p) # Head(k) THEN FALSE
    ELSE IsPrefix(Tail(p), Tail(k))

Matches(prefixes, k) == \E p \in prefixes : IsPrefix(p, k)

\* invalidateQueries: every matching query is marked invalidated.
Invalidate(c, prefixes) ==
    [k \in DOMAIN c |-> IF Matches(prefixes, k) THEN [c[k] EXCEPT !.isInvalidated = TRUE]
                        ELSE c[k]]

\* ... and the matching query that has an enabled observer is fetched again.
RefetchActive(prefixes) ==
    /\ mounted \in ListViews
    /\ Enabled(mounted, isAuthenticated, currentUser)
    /\ Matches(prefixes, ActiveKey)

NoMessage == "undefined"

\* The errors axios rejects with: no response at all, or a response whose body
\* has no message, an empty message, or a message.
Errors == {
    [hasResponse |-> FALSE, serverMessage |-> NoMessage, message |-> "Network Error"],
    [hasResponse |-> TRUE, serverMessage |-> NoMessage,
     message |-> "Request failed with status code 500"],
    [hasResponse |-> TRUE, serverMessage |-> "",
     message |-> "Request failed with status code 400"],
    [hasResponse |-> TRUE, serverMessage |-> "Room already occupied",
     message |-> "Request failed with status code 409"] }

NoError == [hasResponse |-> FALSE, serverMessage |-> NoMessage, message |-> ""]

\* JavaScript a || b on strings: b when a is undefined or empty.
Or(a, b) == IF a = NoMessage \/ a = "" THEN b ELSE a

\* error.response?.data?.message
ResponseMessage(err) == IF err.hasResponse THEN err.serverMessage ELSE NoMessage

Fallback(m) ==
    CASE m.kind = "createPatient"     -> "Failed to register patient."
      [] m.kind = "updatePatient"     -> "Failed to update patient details."
      [] m.kind = "deletePatient"     ->
            "Failed to delete patient. They might have linked records."
      [] m.kind = "reschedule"        -> "Failed to reschedule."
      [] m.kind = "updateStatus"      ->
            IF m.view = "DoctorDashboardPage" THEN "Failed to update appointment status."
            ELSE "Failed to update status."
      [] m.kind = "updateTaskStatus"  -> "Failed to update task 1 status."
      [] m.kind = "createAppointment" -> "Failed to schedule appointment."

\* An error handler that always shows the view's own string.
ErrorTextFallbackOnly(m, err) == Fallback(m)

\* The text handed to toast.error by the view's error path.
ErrorText(m, err) ==
    IF m.view = "AppointmentSchedulerPage"
    THEN Or(ResponseMessage(err), Or(err.message, Fallback(m)))
    ELSE Or(ResponseMessage(err), Fallback(m))

\* Writes submitted in one run of the cache layer.
MaxMutations == 1

TicksPerSecond == 2

\* format(date, "yyyy-MM-dd'T'HH:mm:ss"): the date's second, fractions dropped.
format(now) == now \div TicksPerSecond

NoTime == [set |-> FALSE, at |-> 0]

\* handleStartTask: the variables handed to mutate().
handleStartTask == [status |-> "In Progress", endTime |-> NoTime]

\* A completion that stamps no end time.
handleCompleteTaskUnstamped(now) == [status |-> "Completed", endTime |-> NoTime]

\* handleCompleteTask: the variables handed to mutate().
handleCompleteTask(now) == [status |-> "Completed", endTime |-> [set |-> TRUE, at |-> format(now)]]

\* mutationFn: the request body; end_datetime is included only when given.
Payload(variables) ==
    [status |-> variables.status,
     hasEnd |-> variables.endTime.set,
     end_datetime |-> IF variables.endTime.set THEN variables.endTime.at ELSE 0]

\* The body of the request a write sends.
Body(m, now) ==
    IF m.kind = "updateTaskStatus"
    THEN Payload(IF m.input = "Completed" THEN handleCompleteTask(now) ELSE handleStartTask)
    ELSE Payload([status |-> m.input, endTime |-> NoTime])

\* The user submits a write from the mounted view.  Completing a consultation
\* also navigates away, which brings the doctor's dashboard up afresh.
Mutate(m) ==
    /\ m \in AvailableMutations
    /\ m \notin mutations
    /\ issued < MaxMutations
    /\ issued' = issued + 1
    /\ mutations' = mutations \cup {m}
    /\ IF m.view = "DoctorDashboardPage" /\ m.input = "Completed"
       THEN /\ cache' = StartFetch(cache, ActiveRequest)
            /\ inflight' = inflight \cup {ActiveRequest}
            /\ obs' = Observe(mounted, cache', ActiveKey, NoResult, FALSE)
       ELSE UNCHANGED <<cache, inflight, obs>>
    /\ sent' = Body(m, clock)
    /\ event' = "mutate"
    /\ UNCHANGED <<mounted, filter, server, toast, lastSuccess, lastInvalidated>>
    /\ UNCHANGED <<navVars, started, clock>>
    /\ UNCHANGED formVars
    /\ UNCHANGED <<retryVars, pageVars>>
    /\ UNCHANGED searchVars

\* Clock ticks followed in one run.
MaxClock == 3

\* Time passes.
Tick ==
    /\ clock < MaxClock
    /\ clock' = clock + 1
    /\ event' = "tick"
    /\ UNCHANGED <<navVars, cacheVars, searchVars, sent>>
    /\ UNCHANGED formVars
    /\ UNCHANGED <<retryVars, pageVars>>

\* The write succeeds: the success path toasts and invalidates.
MutationSucceed(m) ==
    /\ m \in mutations
    /\ mutations' = mutations \ {m}
    /\ server' = Apply(server, m)
    /\ LET prefixes == InvalidatedOnSuccess(m, currentUser)
       IN /\ lastInvalidated' = prefixes
          /\ cache' = Invalidate(cache, prefixes)
          /\ inflight' = IF RefetchActive(prefixes) THEN inflight \cup {ActiveRequest}
                         ELSE inflight
    /\ toast' = [kind |-> "success", text |-> m.kind, by |-> m, cause |-> NoError]
    /\ event' = "mutationSucceeded"
    /\ UNCHANGED <<mounted, filter, obs, lastSuccess>>
    /\ UNCHANGED <<navVars, issued, started>>
    /\ UNCHANGED searchVars
    /\ UNCHANGED taskVars
    /\ UNCHANGED formVars
    /\ UNCHANGED <<retryVars, pageVars>>

\* A failed write that is sent again by itself.
MutationFailResubmits(m, err) ==
    /\ m \in mutations
    /\ toast' = [kind |-> "error", text |-> ErrorText(m, err), by |-> m, cause |-> err]
    /\ event' = "mutationFailed"
    /\ UNCHANGED <<mounted, filter, cache, inflight, obs, server, mutations,
                   lastSuccess, lastInvalidated, issued, started>>
    /\ UNCHANGED <<navVars, searchVars, taskVars, formVars, retryVars, pageVars>>

\* The write fails: the error path toasts.
MutationFail(m, err) ==
    /\ m \in mutations
    /\ mutations' = mutations \ {m}
    /\ LET prefixes == InvalidatedOnError(m, currentUser)
       IN /\ lastInvalidated' = prefixes
          /\ cache' = Invalidate(cache, prefixes)
          /\ inflight' = IF RefetchActive(prefixes) THEN inflight \cup {ActiveRequest}
                         ELSE inflight
    /\ toast' = [kind |-> "error", text |-> ErrorText(m, err), by |-> m, cause |-> err]
    /\ event' = "mutationFailed"
    /\ UNCHANGED <<mounted, filter, obs, server, lastSuccess>>
    /\ UNCHANGED <<navVars, issued, started>>
    /\ UNCHANGED searchVars
    /\ UNCHANGED taskVars
    /\ UNCHANGED formVars
    /\ UNCHANGED <<retryVars, pageVars>>

---------------------------------------------------------------------------
(* Admission form *)

\* Rooms the hospital has.
MaxRooms == 2

RoomIds == 1..MaxRooms

\* r.capacity: room r holds r patients.
Capacity(r) == r

\* r.is_available, computed by the server's room model.
is_available(occ, r) == occ[r] < Capacity(r)

RoomOptionAllEnabled(occ, r) == [value |-> r, disabled |-> FALSE]

\* One entry of roomsData.
RoomOption(occ, r) == [value |-> r, disabled |-> ~is_available(occ, r)]

\* The rooms GET /room?is_active=true&only_available=true answers with: the
\* server either honours only_available or lists every active room.
RoomList(occ, onlyAvailable) ==
    IF onlyAvailable THEN {r \in RoomIds : is_available(occ, r)} ELSE RoomIds

NoRooms == [loaded |-> FALSE, options |-> {}]

isLoadingRooms == ~roomsData.loaded /\ roomsFetching

PatientIds == {1}

\* Stands for NaN; no room and no patient has this id.
NaN == 0

parseInt(str) ==
    IF \E n \in RoomIds \cup PatientIds : ToString(n) = str
    THEN CHOOSE n \in RoomIds \cup PatientIds : ToString(n) = str
    ELSE NaN

defaultValues == [patient_id |-> "", room_id |-> ""]

RequiredFields == {"patient_id", "room_id"}

\* Fields whose required rule fails on the values v.
Failing(v) == {f \in RequiredFields : v[f] = ""}

NoAdmission == [patient_id |-> NaN, room_id |-> NaN]

IdleMutation == [isLoading |-> FALSE, variables |-> NoAdmission]

NoNotice == [kind |-> "none", text |-> ""]

\* Every control of the form is disabled while the write is pending.
FormDisabled == admitPatientMutation.isLoading

\* The router shows AdmissionCreatePage: a fresh form over the cached room list,
\* which is stale and therefore fetched again.
OpenAdmission ==
    /\ isAuthenticated
    /\ currentUser.role \in {"Doctor", "Nurse", "Admin", "Receptionist"}
    /\ mounted = "none"
    /\ modal = "none"
    /\ admissionPage = "closed"
    /\ admissionPage' = "open"
    /\ values' = defaultValues
    /\ errors' = {}
    /\ admitPatientMutation' = IdleMutation
    /\ roomsFetching' = TRUE
    /\ event' = "openAdmission"
    /\ UNCHANGED <<occupancy, roomsData, admitted, notice>>
    /\ UNCHANGED <<navVars, cacheVars, searchVars, taskVars>>
    /\ UNCHANGED <<retryVars, modalVars, pageVars>>

\* The Back button.
CloseAdmission ==
    /\ admissionPage = "open"
    /\ admissionPage' = "closed"
    /\ event' = "closeAdmission"
    /\ UNCHANGED <<occupancy, roomsData, roomsFetching, values, errors,
                   admitPatientMutation, admitted, notice>>
    /\ UNCHANGED <<navVars, cacheVars, searchVars, taskVars>>
    /\ UNCHANGED <<retryVars, modalVars, pageVars>>

\* The window regains focus: the room list is fetched again.
RefetchRooms ==
    /\ admissionPage = "open"
    /\ ~roomsFetching
    /\ roomsFetching' = TRUE
    /\ event' = "focus"
    /\ UNCHANGED <<occupancy, roomsData, admissionPage, values, errors,
                   admitPatientMutation, admitted, notice>>
    /\ UNCHANGED <<navVars, cacheVars, searchVars, taskVars>>
    /\ UNCHANGED <<retryVars, modalVars, pageVars>>

RoomsFetchSucceed(onlyAvailable) ==
    /\ roomsFetching
    /\ roomsFetching' = FALSE
    /\ roomsData' = [loaded |-> TRUE,
                     options |-> {RoomOption(occupancy, r) :
                                     r \in RoomList(occupancy, onlyAvailable)}]
    /\ event' = "roomsFetched"
    /\ UNCHANGED <<occupancy, admissionPage, values, errors,
                   admitPatientMutation, admitted, notice>>
    /\ UNCHANGED <<navVars, cacheVars, searchVars, taskVars>>
    /\ UNCHANGED <<retryVars, modalVars, pageVars>>

\* The room list request fails for good: the data already held stays.
RoomsFetchFail(err) ==
    /\ roomsFetching
    /\ roomsFetching' = FALSE
    /\ notice' = IF admissionPage = "open"
                 THEN [kind |-> "error", text |-> "Rooms: " \o err.message]
                 ELSE notice
    /\ event' = "roomsFailed"
    /\ UNCHANGED <<occupancy, roomsData, admissionPage, values, errors,
                   admitPatientMutation, admitted>>
    /\ UNCHANGED <<navVars, cacheVars, searchVars, taskVars>>
    /\ UNCHANGED <<retryVars, modalVars, pageVars>>

\* The values the room selector lets the user pick: the placeholder and the
\* options that are not disabled.
Selectable == {""} \cup {ToString(o.value) : o \in {x \in roomsData.options : ~x.disabled}}

SelectRoom(v) ==
    /\ admissionPage = "open"
    /\ ~FormDisabled /\ ~isLoadingRooms
    /\ v \in Selectable
    /\ v # values.room_id
    /\ values' = [values EXCEPT !.room_id = v]
    /\ errors' = IF v = "" THEN errors \cup {"room_id"} ELSE errors \ {"room_id"}
    /\ event' = "selectRoom"
    /\ UNCHANGED <<occupancy, roomsData, roomsFetching, admissionPage,
                   admitPatientMutation, admitted, notice>>
    /\ UNCHANGED <<navVars, cacheVars, searchVars, taskVars>>
    /\ UNCHANGED <<retryVars, modalVars, pageVars>>

handlePatientSelectionChange(v) ==
    /\ admissionPage = "open"
    /\ ~FormDisabled
    /\ v \in {""} \cup {ToString(n) : n \in PatientIds}
    /\ v # values.patient_id
    /\ values' = [values EXCEPT !.patient_id = v]
    /\ errors' = IF v = "" THEN errors \cup {"patient_id"} ELSE errors \ {"patient_id"}
    /\ event' = "selectPatient"
    /\ UNCHANGED <<occupancy, roomsData, roomsFetching, admissionPage,
                   admitPatientMutation, admitted, notice>>
    /\ UNCHANGED <<navVars, cacheVars, searchVars, taskVars>>
    /\ UNCHANGED <<retryVars, modalVars, pageVars>>

\* The request body onSubmit builds from the form's values.
admissionData(v) == [patient_id |-> parseInt(v.patient_id), room_id |-> parseInt(v.room_id)]

\* handleSubmit(onSubmit): validation, and when it passes the write.
onSubmit ==
    /\ admissionPage = "open"
    /\ ~FormDisabled /\ ~isLoadingRooms
    /\ IF Failing(values) # {}
       THEN /\ errors' = Failing(values)
            /\ event' = "invalid"
            /\ UNCHANGED <<admitPatientMutation, admitted>>
       ELSE /\ errors' = {}
            /\ admitPatientMutation' = [isLoading |-> TRUE,
                                        variables |-> admissionData(values)]
            /\ admitted' = [room_id |-> admissionData(values).room_id,
                            full |-> ~is_available(occupancy,
                                                   admissionData(values).room_id)]
            /\ event' = "onSubmit"
    /\ UNCHANGED <<occupancy, roomsData, roomsFetching, admissionPage, values, notice>>
    /\ UNCHANGED <<navVars, cacheVars, searchVars, taskVars>>
    /\ UNCHANGED <<retryVars, modalVars, pageVars>>

\* The server admits the patient: the room must have a free bed.
AdmitSucceed ==
    /\ admitPatientMutation.isLoading
    /\ is_available(occupancy, admitPatientMutation.variables.room_id)
    /\ occupancy' = [occupancy EXCEPT ![admitPatientMutation.variables.room_id] = @ + 1]
    /\ notice' = [kind |-> "success", text |-> "Patient admitted successfully!"]
    /\ roomsFetching' = TRUE
    /\ values' = defaultValues
    /\ errors' = {}
    /\ admitPatientMutation' = IdleMutation
    /\ admissionPage' = "closed"
    /\ event' = "admitted"
    /\ UNCHANGED <<roomsData, admitted>>
    /\ UNCHANGED <<navVars, cacheVars, searchVars, taskVars>>
    /\ UNCHANGED <<retryVars, modalVars, pageVars>>

AdmitFail(err) ==
    /\ admitPatientMutation.isLoading
    /\ notice' = [kind |-> "error",
                  text |-> Or(ResponseMessage(err), "Failed to admit patient.")]
    /\ admitPatientMutation' = [admitPatientMutation EXCEPT !.isLoading = FALSE]
    /\ event' = "admitFailed"
    /\ UNCHANGED <<occupancy, roomsData, roomsFetching, admissionPage, values, errors,
                   admitted>>
    /\ UNCHANGED <<navVars, cacheVars, searchVars, taskVars>>
    /\ UNCHANGED <<retryVars, modalVars, pageVars>>

\* Another desk admits a patient to room r.
OtherAdmission(r) ==
    /\ is_available(occupancy, r)
    /\ occupancy' = [occupancy EXCEPT ![r] = @ + 1]
    /\ event' = "otherAdmission"
    /\ UNCHANGED <<roomsData, roomsFetching, admissionPage, values, errors,
                   admitPatientMutation, admitted, notice>>
    /\ UNCHANGED <<navVars, cacheVars, searchVars, taskVars>>
    /\ UNCHANGED <<retryVars, modalVars, pageVars>>

\* A patient of room r is discharged.
Discharge(r) ==
    /\ occupancy[r] > 0
    /\ occupancy' = [occupancy EXCEPT ![r] = @ - 1]
    /\ event' = "discharge"
    /\ UNCHANGED <<roomsData, roomsFetching, admissionPage, values, errors,
                   admitPatientMutation, admitted, notice>>
    /\ UNCHANGED <<navVars, cacheVars, searchVars, taskVars>>
    /\ UNCHANGED <<retryVars, modalVars, pageVars>>

\* Every room is empty and the admission page is either not opened yet
\* ("closed") or just opened, its room list on its way ("open").
AdmissionIdle(page) ==
    /\ occupancy = [r \in RoomIds |-> 0]
    /\ roomsData = NoRooms
    /\ roomsFetching = (page = "open")
    /\ admissionPage = page
    /\ values = defaultValues
    /\ errors = {}
    /\ admitPatientMutation = IdleMutation
    /\ admitted = [room_id |-> NaN, full |-> FALSE]
    /\ notice = NoNotice

---------------------------------------------------------------------------
(* Forms and dialogs *)

\* The patient add / edit form and delete dialog, the appointment scheduler,
\* and the reschedule and status dialogs of the appointment list.
Forms == {"addPatient", "editPatient", "deletePatient", "appointment", "reschedule", "status"}

\* first_name stands for date_of_birth as well: the two carry the same rule.
PatientFields == {"first_name", "last_name", "phone_number", "email"}

Fields(form) ==
    CASE form \in {"addPatient", "editPatient"} -> PatientFields
      [] form = "appointment" ->
            {"patient_id", "doctor_id", "appointment_datetime", "reason"}
      [] form = "reschedule"  -> {"appointment_datetime"}
      [] form = "status"      -> {"status"}
      [] OTHER                -> {}

\* The rules a field is registered with.
Rules(form, f) ==
    [required |-> f \notin {"email", "reason"},
     pattern  |-> CASE f = "phone_number" -> "phone"
                    [] f = "email"        -> "email"
                    [] OTHER              -> "none"]

Empty == <<>>

Filled == <<"x">>

\* The placeholder's number.
ValidPhone == <<"0", "9", "1", "1", "2", "2", "3", "3", "4", "4">>

ShortPhone == <<"0", "9", "1", "1">>

LetterPhone == <<"0", "9", "1", "1", "2", "2", "3", "3", "4", "x">>

ValidEmail == <<"a", "@", "b", ".", "c", "o">>

NoDotEmail == <<"a", "@", "b">>

\* What the user may put in a field.
Samples(f) ==
    CASE f = "phone_number" -> {Empty, ValidPhone, ShortPhone, LetterPhone}
      [] f = "email"        -> {Empty, ValidEmail, NoDotEmail}
      [] OTHER              -> {Empty, Filled}

Digits == {"0", "1", "2", "3", "4", "5", "6", "7", "8", "9"}

Letters == {"a", "b", "c", "d", "e", "f", "g", "h", "i", "j", "k", "l", "m",
            "n", "o", "p", "q", "r", "s", "t", "u", "v", "w", "x", "y", "z",
            "A", "B", "C", "D", "E", "F", "G", "H", "I", "J", "K", "L", "M",
            "N", "O", "P", "Q", "R", "S", "T", "U", "V", "W", "X", "Y", "Z"}

\* /^[0-9\s+-]{9,15}$/
phonePattern(v) ==
    /\ Len(v) >= 9 /\ Len(v) <= 15
    /\ \A i \in 1..Len(v) : v[i] \in Digits \cup {" ", "+", "-"}

\* /^[A-Z0-9._%+-]+@[A-Z0-9.-]+\.[A-Z]{2,}$/i
emailPattern(v) ==
    \E a \in 1..Len(v), d \in 1..Len(v) :
        /\ v[a] = "@" /\ v[d] = "."
        /\ 1 < a /\ a + 1 < d /\ d + 2 <= Len(v)
        /\ \A i \in 1..(a - 1) : v[i] \in Letters \cup Digits \cup {".", "_", "%", "+", "-"}
        /\ \A i \in (a + 1)..(d - 1) : v[i] \in Letters \cup Digits \cup {".", "-"}
        /\ \A i \in (d + 1)..Len(v) : v[i] \in Letters

matches(pattern, v) ==
    CASE pattern = "phone" -> phonePattern(v)
      [] pattern = "email" -> emailPattern(v)
      [] OTHER             -> TRUE

validateFieldRequiredOnly(rule, v) ==
    IF rule.required /\ v = Empty THEN "required" ELSE "none"

\* The error a field's value earns: required is checked first; a pattern is
\* checked on values that are not empty.
validateField(rule, v) ==
    IF rule.required /\ v = Empty THEN "required"
    ELSE IF rule.pattern # "none" /\ v # Empty /\ ~matches(rule.pattern, v) THEN "pattern"
    ELSE "none"

\* reset(): every field empty.
Defaults(form) == [f \in Fields(form) |-> Empty]

\* The record an edit form is filled from.
PatientRecord ==
    [f \in PatientFields |->
        CASE f = "phone_number" -> ValidPhone
          [] f = "email"        -> Empty
          [] OTHER              -> Filled]

NoPost == [form |-> "none", entity |-> "none"]

NoModalToast == [kind |-> "none", text |-> ""]

\* The entity a dialog is opened on.
EntityOf(form) ==
    CASE form \in {"editPatient", "deletePatient"} -> "patient"
      [] form \in {"reschedule", "status"}         -> "appointment"
      [] OTHER                                     -> "none"

\* Who is shown the control that opens the form.
MayOpen(form, user) ==
    CASE form \in {"addPatient", "editPatient", "deletePatient"} -> canManagePatients(user)
      [] form \in {"reschedule", "status"} ->
            user.role \in {"Admin", "Receptionist", "Doctor"}
      [] OTHER -> TRUE

\* openAddModal, openEditModal, openDeleteModal, openRescheduleModal,
\* openStatusModal, or the scheduler page being shown.
openModal(form) ==
    /\ isAuthenticated
    /\ MayOpen(form, currentUser)
    /\ modal = "none" /\ admissionPage = "closed" /\ ~pending
    /\ modal' = form
    /\ editing' = IF form = "appointment" THEN editing ELSE EntityOf(form)
    /\ fields' = CASE form = "editPatient"   -> PatientRecord
                   [] form = "deletePatient" -> fields
                   [] form \in {"reschedule", "status"} -> [f \in Fields(form) |-> Filled]
                   [] OTHER -> Defaults(form)
    /\ fieldErrors' = IF form = "deletePatient" THEN fieldErrors ELSE {}
    /\ event' = "openModal"
    /\ UNCHANGED <<pending, posted, modalToast>>
    /\ UNCHANGED <<navVars, cacheVars, searchVars, taskVars, retryVars, admissionVars, pageVars>>

\* The dialog is dismissed (Dialog onClose), or the scheduler page is left.
closeModal ==
    /\ modal # "none"
    /\ modal' = "none"
    /\ event' = "closeModal"
    /\ UNCHANGED <<fields, fieldErrors, pending, posted, editing, modalToast>>
    /\ UNCHANGED <<navVars, cacheVars, searchVars, taskVars, retryVars, admissionVars, pageVars>>

\* The user changes a field.  A field that was touched or submitted before is
\* validated again at once.
changeField(f, v, revalidate) ==
    /\ modal # "none" /\ ~pending
    /\ f \in Fields(modal)
    /\ v \in Samples(f)
    /\ v # fields[f]
    /\ fields' = [fields EXCEPT ![f] = v]
    /\ fieldErrors' = IF ~revalidate THEN fieldErrors
                      ELSE IF validateField(Rules(modal, f), v) = "none"
                           THEN fieldErrors \ {f}
                           ELSE fieldErrors \cup {f}
    /\ event' = "changeField"
    /\ UNCHANGED <<modal, pending, posted, editing, modalToast>>
    /\ UNCHANGED <<navVars, cacheVars, searchVars, taskVars, retryVars, admissionVars, pageVars>>

\* The fields of the open form whose value breaks a rule.
Invalid == {f \in Fields(modal) : validateField(Rules(modal, f), fields[f]) # "none"}

\* handleSubmit(onFormSubmit) and its like, and confirmDeletePatient: the
\* handler runs, and the write goes out, only when no field is invalid.
handleSubmit ==
    /\ modal # "none" /\ ~pending
    /\ modal = "deletePatient" => editing # "none"
    /\ IF Invalid # {}
       THEN /\ fieldErrors' = Invalid
            /\ event' = "invalid"
            /\ UNCHANGED <<pending, posted>>
       ELSE /\ fieldErrors' = IF modal = "deletePatient" THEN fieldErrors ELSE {}
            /\ pending' = TRUE
            /\ posted' = [form |-> modal,
                          entity |-> IF modal = "appointment" THEN "none" ELSE editing]
            /\ event' = "submit"
    /\ UNCHANGED <<modal, fields, editing, modalToast>>
    /\ UNCHANGED <<navVars, cacheVars, searchVars, taskVars, retryVars, admissionVars, pageVars>>

\* The server accepts the write.
WriteSucceed ==
    /\ pending
    /\ pending' = FALSE
    /\ modalToast' = [kind |-> "success", text |-> posted.form]
    /\ modal' = IF posted.form # "appointment" /\ modal = posted.form THEN "none" ELSE modal
    /\ editing' = IF posted.form \in {"editPatient", "deletePatient"} THEN "none" ELSE editing
    /\ fields' = IF posted.form \in {"addPatient", "editPatient", "appointment"}
                 THEN Defaults(posted.form) ELSE fields
    /\ fieldErrors' = IF posted.form \in {"addPatient", "editPatient", "appointment"}
                      THEN {} ELSE fieldErrors
    /\ event' = "writeSucceeded"
    /\ UNCHANGED posted
    /\ UNCHANGED <<navVars, cacheVars, searchVars, taskVars, retryVars, admissionVars, pageVars>>

WriteFallback(form) ==
    CASE form = "addPatient"    -> "Failed to register patient."
      [] form = "editPatient"   -> "Failed to update patient details."
      [] form = "deletePatient" -> "Failed to delete patient. They might have linked records."
      [] form = "appointment"   -> "Failed to schedule appointment."
      [] form = "reschedule"    -> "Failed to reschedule."
      [] OTHER                  -> "Failed to update status."

WriteFailKeepsEveryDialog(err) ==
    /\ pending
    /\ pending' = FALSE
    /\ modalToast' = [kind |-> "error", text |-> WriteFallback(posted.form)]
    /\ event' = "writeFailed"
    /\ UNCHANGED <<modal, fields, fieldErrors, posted, editing>>
    /\ UNCHANGED <<navVars, cacheVars, searchVars, taskVars, retryVars, admissionVars, pageVars>>

\* The server rejects the write: the error path toasts, and the delete dialog
\* is closed as well.
WriteFail(err) ==
    /\ pending
    /\ pending' = FALSE
    /\ modalToast' =
          [kind |-> "error",
           text |-> IF posted.form = "appointment"
                    THEN Or(ResponseMessage(err), Or(err.message, WriteFallback("appointment")))
                    ELSE Or(ResponseMessage(err), WriteFallback(posted.form))]
    /\ modal' = IF posted.form = "deletePatient" THEN "none" ELSE modal
    /\ event' = "writeFailed"
    /\ UNCHANGED <<fields, fieldErrors, posted, editing>>
    /\ UNCHANGED <<navVars, cacheVars, searchVars, taskVars, retryVars, admissionVars, pageVars>>

\* No form or dialog has been opened.
ModalIdle ==
    /\ modal = "none"
    /\ fields = Defaults("none")
    /\ fieldErrors = {}
    /\ pending = FALSE
    /\ posted = NoPost
    /\ editing = "none"
    /\ modalToast = NoModalToast

---------------------------------------------------------------------------
(* MySchedulePage: the Update Status dialog *)

\* The appointments of the doctor's schedule.
AppointmentIds == {1}

\* useState(null): no appointment selected yet.
NoAppointment == 0

\* appointmentStatuses of MySchedulePage.
ScheduleStatuses == {"Scheduled", "Checked-In", "In Progress", "Completed", "Cancelled", "No Show"}

\* Status updates that may await their response at once.
MaxWrites == 2

\* The row shows the Update Status button.
showsUpdateStatus(status) == status \in {"Scheduled", "Checked-In", "In Progress"}

\* The dialog's submit button does not take a click: disabled={isUpdatingStatus}.
StatusSubmitDisabled == isUpdatingStatus

openStatusModal(appt) ==
    /\ isAuthenticated
    /\ currentUser.role \in {"Doctor", "Admin"}
    /\ currentUser.linkedStaffId # 0
    /\ mounted = "none" /\ modal = "none" /\ admissionPage = "closed"
    /\ ~isStatusModalOpen
    /\ showsUpdateStatus(apptStatus[appt])
    /\ selectedAppointment' = appt
    /\ statusValue' = apptStatus[appt]
    /\ isStatusModalOpen' = TRUE
    /\ event' = "openStatusModal"
    /\ UNCHANGED <<isUpdatingStatus, statusWrites, apptStatus, statusNotice>>
    /\ UNCHANGED <<navVars, cacheVars, searchVars, taskVars, formVars, retryVars, detailVars, rowVars, treatVars>>

\* Dialog onClose, or the Cancel button while it is enabled.
closeStatusModal ==
    /\ isStatusModalOpen
    /\ isStatusModalOpen' = FALSE
    /\ event' = "closeStatusModal"
    /\ UNCHANGED <<selectedAppointment, statusValue, isUpdatingStatus, statusWrites,
                   apptStatus, statusNotice>>
    /\ UNCHANGED <<navVars, cacheVars, searchVars, taskVars, formVars, retryVars, detailVars, rowVars, treatVars>>

\* The user picks a status, or the placeholder, in the dialog.
changeStatus(v) ==
    /\ isStatusModalOpen /\ ~isUpdatingStatus
    /\ v # statusValue
    /\ statusValue' = v
    /\ event' = "changeStatus"
    /\ UNCHANGED <<isStatusModalOpen, selectedAppointment, isUpdatingStatus, statusWrites,
                   apptStatus, statusNotice>>
    /\ UNCHANGED <<navVars, cacheVars, searchVars, taskVars, formVars, retryVars, detailVars, rowVars, treatVars>>

\* The submit button is clicked: handleSubmit raises isSubmitting and validates.
handleStatusSubmit ==
    /\ isStatusModalOpen
    /\ ~StatusSubmitDisabled
    /\ Len(statusWrites) < MaxWrites
    /\ isUpdatingStatus' = TRUE
    /\ event' = "handleStatusSubmit"
    /\ UNCHANGED <<isStatusModalOpen, selectedAppointment, statusValue, statusWrites,
                   apptStatus, statusNotice>>
    /\ UNCHANGED <<navVars, cacheVars, searchVars, taskVars, formVars, retryVars, detailVars, rowVars, treatVars>>

\* Validation is over: a valid form runs onStatusSubmit, which hands the update
\* to updateStatusMutation.mutate and returns; isSubmitting drops with it.
onStatusSubmit ==
    /\ isUpdatingStatus
    /\ isUpdatingStatus' = FALSE
    /\ IF statusValue = "" THEN
            /\ event' = "invalid"
            /\ UNCHANGED statusWrites
       ELSE IF selectedAppointment = NoAppointment THEN
            /\ event' = "onStatusSubmit"
            /\ UNCHANGED statusWrites
       ELSE /\ event' = "mutate"
            /\ statusWrites' = Append(statusWrites,
                                      [appointmentId |-> selectedAppointment,
                                       status |-> statusValue])
    /\ UNCHANGED <<isStatusModalOpen, selectedAppointment, statusValue, apptStatus, statusNotice>>
    /\ UNCHANGED <<navVars, cacheVars, searchVars, taskVars, formVars, retryVars, detailVars, rowVars, treatVars>>

\* The sequence without its i-th element.
Without(seq, i) == SubSeq(seq, 1, i - 1) \o SubSeq(seq, i + 1, Len(seq))

\* updateStatusMutation onSuccess: toast, both appointment lists are read
\* again, the dialog closes.
StatusWriteSucceed(i) ==
    /\ i \in 1..Len(statusWrites)
    /\ statusWrites' = Without(statusWrites, i)
    /\ apptStatus' = [apptStatus EXCEPT ![statusWrites[i].appointmentId] = statusWrites[i].status]
    /\ statusNotice' = "success"
    /\ isStatusModalOpen' = FALSE
    /\ event' = "statusWriteSucceeded"
    /\ UNCHANGED <<selectedAppointment, statusValue, isUpdatingStatus>>
    /\ UNCHANGED <<navVars, cacheVars, searchVars, taskVars, formVars, retryVars, detailVars, rowVars, treatVars>>

\* updateStatusMutation onError: toast only.
StatusWriteFail(i) ==
    /\ i \in 1..Len(statusWrites)
    /\ statusWrites' = Without(statusWrites, i)
    /\ statusNotice' = "error"
    /\ event' = "statusWriteFailed"
    /\ UNCHANGED <<isStatusModalOpen, selectedAppointment, statusValue, isUpdatingStatus,
                   apptStatus>>
    /\ UNCHANGED <<navVars, cacheVars, searchVars, taskVars, formVars, retryVars, detailVars, rowVars, treatVars>>

\* The schedule page before its dialog was ever opened.
ScheduleIdle ==
    /\ isStatusModalOpen = FALSE
    /\ selectedAppointment = NoAppointment
    /\ statusValue = ""
    /\ isUpdatingStatus = FALSE
    /\ statusWrites = <<>>
    /\ apptStatus = [a \in AppointmentIds |-> "Scheduled"]
    /\ statusNotice = "none"

---------------------------------------------------------------------------
(* PatientDetailPage: the patient and its dependent lists *)

DependentKeys == {"patientAppointments", "patientTreatments"}

\* What the patient query holds: nothing yet, the null an empty answer leaves,
\* or a patient record.
PatientData == {"undefined", "null", "record"}

\* enabled of the dependent queries without its !!patient.
DependentEnabledWithoutPatient(auth, data) == auth

\* enabled: !!token && !!patientId && !!patient.
DependentEnabled(auth, data) == auth /\ data = "record"

\* enabled: !!token && !!patientId.
PatientEnabled(auth) == auth

\* A mounted, enabled query that is not being fetched starts a fetch.
Fetched(q, on) == IF on /\ ~q.fetching THEN [q EXCEPT !.fetching = TRUE] ELSE q

\* The dependent queries after their observers saw the patient data: each
\* enabled key that is not in flight is fetched, from the keys in `keys`.
FetchDependents(deps, keys, data) ==
    [k \in DependentKeys |->
        Fetched(deps[k], k \in keys /\ DependentEnabled(HasToken, data))]

\* The keys a step starts a fetch for.
Started(before, after) == {k \in DependentKeys : after[k].fetching /\ ~before[k].fetching}

\* The router shows PatientDetailPage: its three queries mount over the cache.
OpenDetail ==
    /\ isAuthenticated
    /\ currentUser.role \in {"Receptionist", "Doctor", "Nurse", "WardBoy", "Admin"}
    /\ mounted = "none" /\ modal = "none" /\ admissionPage = "closed" /\ ~isStatusModalOpen
    /\ detailPage = "closed"
    /\ detailPage' = "open"
    /\ patientQuery' = Fetched(patientQuery, PatientEnabled(HasToken))
    /\ dependents' = FetchDependents(dependents, DependentKeys, patientQuery.data)
    /\ dependentsIssued' = dependentsIssued \cup Started(dependents, dependents')
    /\ event' = "openDetail"
    /\ UNCHANGED patientLoaded
    /\ UNCHANGED <<navVars, cacheVars, searchVars, taskVars, formVars, retryVars, scheduleVars, rowVars, treatVars>>

\* navigate(-1): the page unmounts; requests in flight run on.
CloseDetail ==
    /\ detailPage = "open"
    /\ detailPage' = "closed"
    /\ event' = "closeDetail"
    /\ UNCHANGED <<patientQuery, dependents, patientLoaded, dependentsIssued>>
    /\ UNCHANGED <<navVars, cacheVars, searchVars, taskVars, formVars, retryVars, scheduleVars, rowVars, treatVars>>

\* The window regains focus: every mounted, enabled query is fetched again.
RefocusDetail ==
    /\ detailPage = "open"
    /\ patientQuery' = Fetched(patientQuery, PatientEnabled(HasToken))
    /\ dependents' = FetchDependents(dependents, DependentKeys, patientQuery.data)
    /\ <<patientQuery', dependents'>> # <<patientQuery, dependents>>
    /\ dependentsIssued' = dependentsIssued \cup Started(dependents, dependents')
    /\ event' = "focus"
    /\ UNCHANGED <<detailPage, patientLoaded>>
    /\ UNCHANGED <<navVars, cacheVars, searchVars, taskVars, formVars, retryVars, scheduleVars, rowVars, treatVars>>

\* GET /patient/:id answers, with a record or with nothing.  The dependent
\* queries of a mounted page see the new data.
PatientFetchSucceed(data) ==
    /\ patientQuery.fetching
    /\ data \in {"null", "record"}
    /\ patientQuery' = [data |-> data, fetching |-> FALSE, error |-> FALSE]
    /\ dependents' = IF detailPage = "open" /\ patientQuery.data # "record"
                     THEN FetchDependents(dependents, DependentKeys, data)
                     ELSE dependents
    /\ dependentsIssued' = dependentsIssued \cup Started(dependents, dependents')
    /\ patientLoaded' = (patientLoaded \/ data = "record")
    /\ event' = "patientFetched"
    /\ UNCHANGED detailPage
    /\ UNCHANGED <<navVars, cacheVars, searchVars, taskVars, formVars, retryVars, scheduleVars, rowVars, treatVars>>

\* GET /patient/:id fails for good: the error is kept beside the data held.
PatientFetchFail ==
    /\ patientQuery.fetching
    /\ patientQuery' = [patientQuery EXCEPT !.fetching = FALSE, !.error = TRUE]
    /\ event' = "patientFetchFailed"
    /\ UNCHANGED <<detailPage, dependents, patientLoaded, dependentsIssued>>
    /\ UNCHANGED <<navVars, cacheVars, searchVars, taskVars, formVars, retryVars, scheduleVars, rowVars, treatVars>>

\* A dependent list answers or fails.
DependentFetchSettles(k, ok) ==
    /\ dependents[k].fetching
    /\ dependents' = [dependents EXCEPT ![k] =
                         [hasData |-> (ok \/ @.hasData), fetching |-> FALSE, error |-> ~ok]]
    /\ event' = IF ok THEN "dependentFetched" ELSE "dependentFetchFailed"
    /\ UNCHANGED <<detailPage, patientQuery, patientLoaded, dependentsIssued>>
    /\ UNCHANGED <<navVars, cacheVars, searchVars, taskVars, formVars, retryVars, scheduleVars, rowVars, treatVars>>

\* invalidateQueries(['patientTreatments', patientId]) after a treatment was
\* logged: the key is fetched again when mounted and enabled.
InvalidateTreatments ==
    /\ patientLoaded
    /\ detailPage = "open"
    /\ dependents' = FetchDependents(dependents, {"patientTreatments"}, patientQuery.data)
    /\ dependents' # dependents
    /\ dependentsIssued' = dependentsIssued \cup Started(dependents, dependents')
    /\ event' = "invalidateTreatments"
    /\ UNCHANGED <<detailPage, patientQuery, patientLoaded>>
    /\ UNCHANGED <<navVars, cacheVars, searchVars, taskVars, formVars, retryVars, scheduleVars, rowVars, treatVars>>

\* The detail page was never opened: its keys are not in the cache.
DetailIdle ==
    /\ detailPage = "closed"
    /\ patientQuery = [data |-> "undefined", fetching |-> FALSE, error |-> FALSE]
    /\ dependents = [k \in DependentKeys |->
                        [hasData |-> FALSE, fetching |-> FALSE, error |-> FALSE]]
    /\ patientLoaded = FALSE
    /\ dependentsIssued = {}

---------------------------------------------------------------------------
(* Row buttons of the task lists *)

\* The tasks listed.
TaskIds == {1, 2}

\* Row status updates sent in one run.
MaxRowWrites == 3

\* No mutation run yet: isLoading false, variables undefined.
NoRowMutation == [isLoading |-> FALSE, assignmentId |-> 0, id |-> 0]

\* disabled={mutation.isLoading && mutation.variables?.assignmentId === task.assignment_id}
RowDisabled(a) == rowMutation.isLoading /\ rowMutation.assignmentId = a

\* The status a row's button asks for: Start on a pending task, Complete on
\* one in progress, no button otherwise.
RowButton(status) ==
    CASE status = "Pending"     -> "In Progress"
      [] status = "In Progress" -> "Completed"
      [] OTHER                  -> "none"

\* handleStartTask / handleCompleteTask from the row's button: mutate(), after
\* which the hook reports this latest mutation.
ClickRow(a) ==
    /\ isAuthenticated
    /\ currentUser.role \in {"Nurse", "WardBoy"} /\ currentUser.linkedStaffId # 0
    /\ mounted = "none" /\ modal = "none" /\ admissionPage = "closed"
    /\ RowButton(rowStatus[a]) # "none"
    /\ ~RowDisabled(a)
    /\ rowIssued < MaxRowWrites
    /\ rowIssued' = rowIssued + 1
    /\ rowWrites' = rowWrites \cup {[id |-> rowIssued', assignmentId |-> a,
                                     status |-> RowButton(rowStatus[a])]}
    /\ rowMutation' = [isLoading |-> TRUE, assignmentId |-> a, id |-> rowIssued']
    /\ event' = "clickRow"
    /\ UNCHANGED rowStatus
    /\ UNCHANGED <<navVars, cacheVars, searchVars, taskVars, formVars, retryVars,
                   scheduleVars, detailVars, treatVars>>

\* An update is answered.  The hook follows its latest mutation only; an
\* accepted update shows in the row once the list is read again.
RowWriteSettles(w, ok) ==
    /\ w \in rowWrites
    /\ rowWrites' = rowWrites \ {w}
    /\ rowMutation' = IF rowMutation.id = w.id
                      THEN [rowMutation EXCEPT !.isLoading = FALSE]
                      ELSE rowMutation
    /\ rowStatus' = IF ok THEN [rowStatus EXCEPT ![w.assignmentId] = w.status] ELSE rowStatus
    /\ event' = IF ok THEN "rowWriteSucceeded" ELSE "rowWriteFailed"
    /\ UNCHANGED rowIssued
    /\ UNCHANGED <<navVars, cacheVars, searchVars, taskVars, formVars, retryVars,
                   scheduleVars, detailVars, treatVars>>

\* The task list as first shown.
RowIdle(st) ==
    /\ rowStatus = st
    /\ rowWrites = {}
    /\ rowMutation = NoRowMutation
    /\ rowIssued = 0

---------------------------------------------------------------------------
(* The Log Treatment forms: the page and the patient-detail modal *)

\* Treatment requests followed in one run.
MaxTreatmentPosts == 2

\* PatientDetailPage: who sees the Log Treatment buttons.
canLogClinicalData(user) == user.role \in {"Admin", "Doctor", "Nurse"}

\* parseInt of the session's linkedStaffId: the id, or NaN for an absent one.
doctor_id(linkedStaffId) ==
    IF linkedStaffId \in StaffIds \ {0} THEN linkedStaffId ELSE NaN

\* disabled= of the forms' submit buttons; isSubmitting is over once the
\* submit handler has returned.
TreatmentSubmitDisabled == treatmentPending

\* The user opens /treatments/log.
OpenLogTreatmentPage ==
    /\ CanMount("TreatmentLogPage", build, isAuthenticated, currentUser)
    /\ mounted = "none" /\ modal = "none" /\ admissionPage = "closed" /\ ~isStatusModalOpen
    /\ detailPage = "closed"
    /\ treatmentEntry = "none"
    /\ treatmentEntry' = "page"
    /\ treatmentToast' = "none"
    /\ event' = "openLogTreatmentPage"
    /\ UNCHANGED <<treatmentPending, treatmentPosts>>
    /\ UNCHANGED <<navVars, cacheVars, searchVars, taskVars, formVars, retryVars,
                   scheduleVars, detailVars, rowVars>>

\* PatientDetailPage.openLogTreatmentModal, from one of the page's buttons.
openLogTreatmentModal ==
    /\ detailPage = "open"
    /\ patientQuery.data = "record"
    /\ canLogClinicalData(currentUser)
    /\ treatmentEntry = "none"
    /\ treatmentEntry' = "modal"
    /\ treatmentToast' = "none"
    /\ event' = "openLogTreatmentModal"
    /\ UNCHANGED <<treatmentPending, treatmentPosts>>
    /\ UNCHANGED <<navVars, cacheVars, searchVars, taskVars, formVars, retryVars,
                   scheduleVars, detailVars, rowVars>>

\* LogTreatmentPage.onSubmit, the form being valid.
onSubmitLogTreatmentPage ==
    /\ treatmentEntry = "page"
    /\ ~TreatmentSubmitDisabled
    /\ Len(treatmentPosts) < MaxTreatmentPosts
    /\ IF currentUser.linkedStaffId = 0 /\ currentUser.role \in {"Doctor", "Nurse"}
       THEN /\ treatmentToast' = "not-linked"
            /\ UNCHANGED <<treatmentPending, treatmentPosts>>
       ELSE /\ treatmentPosts' = Append(treatmentPosts,
                    [entry |-> "page", doctor_id |-> doctor_id(currentUser.linkedStaffId)])
            /\ treatmentPending' = TRUE
            /\ UNCHANGED treatmentToast
    /\ event' = "submitTreatment"
    /\ UNCHANGED treatmentEntry
    /\ UNCHANGED <<navVars, cacheVars, searchVars, taskVars, formVars, retryVars,
                   scheduleVars, detailVars, rowVars>>

\* LogTreatmentModal.onSubmitLogTreatment, the form being valid; doctorId is
\* the linkedStaffId the page handed to the modal.
onSubmitLogTreatment ==
    /\ treatmentEntry = "modal"
    /\ ~TreatmentSubmitDisabled
    /\ Len(treatmentPosts) < MaxTreatmentPosts
    /\ treatmentPosts' = Append(treatmentPosts,
            [entry |-> "modal", doctor_id |-> doctor_id(currentUser.linkedStaffId)])
    /\ treatmentPending' = TRUE
    /\ event' = "submitTreatment"
    /\ UNCHANGED <<treatmentEntry, treatmentToast>>
    /\ UNCHANGED <<navVars, cacheVars, searchVars, taskVars, formVars, retryVars,
                   scheduleVars, detailVars, rowVars>>

\* POST /treatment is answered: onSuccess toasts, invalidates the patient's
\* treatments and, in the modal, closes it; onError toasts.
TreatmentPostSettles(ok) ==
    /\ treatmentPending
    /\ treatmentPending' = FALSE
    /\ treatmentToast' = IF ok THEN "success" ELSE "failed"
    /\ treatmentEntry' = IF ok /\ treatmentEntry = "modal" THEN "none" ELSE treatmentEntry
    /\ dependents' = IF ok /\ detailPage = "open"
                     THEN FetchDependents(dependents, {"patientTreatments"}, patientQuery.data)
                     ELSE dependents
    /\ dependentsIssued' = dependentsIssued \cup Started(dependents, dependents')
    /\ event' = IF ok THEN "treatmentLogged" ELSE "treatmentFailed"
    /\ UNCHANGED <<treatmentPosts, detailPage, patientQuery, patientLoaded>>
    /\ UNCHANGED <<navVars, cacheVars, searchVars, taskVars, formVars, retryVars,
                   scheduleVars, rowVars>>

\* Cancel in the modal, Back on the page.
closeTreatment ==
    /\ treatmentEntry # "none"
    /\ ~treatmentPending
    /\ treatmentEntry' = "none"
    /\ event' = "closeTreatment"
    /\ UNCHANGED <<treatmentPending, treatmentPosts, treatmentToast>>
    /\ UNCHANGED <<navVars, cacheVars, searchVars, taskVars, formVars, retryVars,
                   scheduleVars, detailVars, rowVars>>

\* No Log Treatment form is open and nothing was sent.
TreatIdle ==
    /\ treatmentEntry = "none"
    /\ treatmentPending = FALSE
    /\ treatmentPosts = <<>>
    /\ treatmentToast = "none"

PageIdle ==
    /\ ScheduleIdle
    /\ DetailIdle
    /\ RowIdle([a \in TaskIds |-> "Pending"])
    /\ TreatIdle

---------------------------------------------------------------------------
(* Specifications *)

InitialServer ==
    [patient |-> [present |-> TRUE, name |-> "Jane"],
     appt    |-> [status |-> "Checked-In", slot |-> "09:00"],
     task    |-> [status |-> "Pending"]]

NoToast == [kind |-> "none", text |-> "", by |-> Mutation("none", "none", "", ""),
            cause |-> NoError]

\* Nothing fetched, nothing submitted, no dialog open.
IdleWithKeys(srv, page, keys) ==
    /\ mounted = "none"
    /\ filter = ""
    /\ cache = [k \in keys |-> EmptyEntry]
    /\ inflight = {}
    /\ obs = NoResult
    /\ server = srv
    /\ mutations = {}
    /\ toast = NoToast
    /\ lastSuccess = [r \in Requests |-> [has |-> FALSE, data |-> NoData]]
    /\ lastInvalidated = {}
    /\ issued = 0
    /\ started = 0
    /\ searchTerm = ""
    /\ timers = {}
    /\ changes = 0
    /\ clock = 0
    /\ sent = Payload([status |-> "", endTime |-> NoTime])
    /\ AdmissionIdle(page)
    /\ failureCount = [r \in Requests |-> 0]
    /\ ModalIdle
    /\ PageIdle

\* Nothing fetched, written or typed yet in the session of currentUser.
Idle(srv, page) == IdleWithKeys(srv, page, AllKeys(currentUser))

\* Before any feature view has been opened.
IdleWith(srv) == Idle(srv, "closed")

CacheIdle == IdleWith(InitialServer)

\* The application as loaded: nobody signed in, nothing fetched.
NavInit ==
    /\ isAuthenticated = FALSE
    /\ currentUser = NoUser
    /\ requested = <<>>
    /\ location = <<>>
    /\ view = "resolving"
    /\ sidebar = Null
    /\ dashboard = Null
    /\ redirects = 0
    /\ logoutCall = "idle"
    /\ authNotice = "none"
    /\ build \in Builds
    /\ event = "init"
    /\ CacheIdle

Spec == NavInit /\ [][NavNext]_vars

\* A session that moves through the application by its sidebar only.
SidebarNext ==
    \/ \E user \in Users : Login(user)
    \/ handleLogout
    \/ \E outcome \in {"done", "failed"} : LogoutCallSettles(outcome)
    \/ \E path \in {LoginPath, DashboardPath} : Navigate(path)
    \/ \E link \in UNION {SidebarLinks(bar) : bar \in {"AdminSidebar", "DoctorSidebar",
                              "NurseSidebar", "WardBoySidebar", "BillingStaffSidebar"}} :
          FollowSidebarLink(link)
    \/ Render

SidebarSpec == NavInit /\ [][SidebarNext]_vars

\* The router renders the location for as long as it has not settled.
NavLiveSpec == NavInit /\ [][NavNext]_vars /\ WF_vars(Render)

\* The sessions the cache layer is exercised with.
CacheUsers == {[role |-> "Doctor", linkedStaffId |-> 1],
               [role |-> "Nurse", linkedStaffId |-> 1],
               [role |-> "Receptionist", linkedStaffId |-> 0]}

\* A signed-in session on its dashboard.
SignedIn(users) ==
    /\ isAuthenticated = TRUE
    /\ currentUser \in users
    /\ requested = DashboardPath
    /\ location = DashboardPath
    /\ view = "DashboardDispatcher"
    /\ build = "full"
    /\ sidebar = renderSidebar(isAuthenticated, currentUser)
    /\ dashboard = Dispatch(build, currentUser)
    /\ redirects = 0
    /\ logoutCall = "idle"
    /\ authNotice = "login-ok"
    /\ event = "init"

CacheInit ==
    /\ SignedIn(CacheUsers)
    /\ CacheIdle

CacheNext ==
    \/ \E v \in Views : Mount(v)
    \/ \E f \in {"", "Jane", "Scheduled", "Pending"} : SetFilter(f)
    \/ \E req \in Requests : FetchSucceed(req)
    \/ \E req \in Requests : FetchFail(req)
    \/ Revalidate
    \/ \E m \in AvailableMutations : Mutate(m)
    \/ \E m \in mutations : MutationSucceed(m)
    \/ \E m \in mutations, err \in Errors : MutationFail(m, err)

CacheSpec == CacheInit /\ [][CacheNext]_vars

\* The patient list under typing: the search field, its debounce timer and the
\* fetches the settled term starts.
SearchNext ==
    \/ Mount("PatientListPage")
    \/ \E term \in SearchTerms : handleSearchChange(term)
    \/ \E term \in SearchTerms : TimerFires(term)
    \/ \E req \in Requests : FetchSucceed(req)
    \/ \E req \in Requests : FetchFail(req)

SearchSpec == CacheInit /\ [][SearchNext]_vars

\* The task views, whatever status the server holds for the task.
TaskInit ==
    /\ SignedIn(CacheUsers)
    /\ \E st \in TaskStatuses : IdleWith([InitialServer EXCEPT !.task.status = st])

TaskViews == {"MyTasksPage", "NurseDashboardPage"}

TaskNext ==
    \/ \E v \in TaskViews : Mount(v)
    \/ \E f \in FiltersOf("MyTasksPage") : SetFilter(f)
    \/ \E req \in Requests : FetchSucceed(req)
    \/ \E req \in Requests : FetchFail(req)
    \/ Tick
    \/ \E m \in AvailableMutations : Mutate(m)
    \/ \E m \in mutations : MutationSucceed(m)
    \/ \E m \in mutations, err \in Errors : MutationFail(m, err)

TaskSpec == TaskInit /\ [][TaskNext]_vars

\* Every session the route of MyTasksPage lets in.
MyTasksInit ==
    /\ SignedIn({u \in Users : CanMount("MyTasksPage", "full", TRUE, u)})
    /\ CacheIdle

\* A request in flight is answered.
FetchSettles == \E req \in Requests : FetchSucceed(req) \/ FetchFail(req)

MyTasksSpec == MyTasksInit /\ [][TaskNext]_vars /\ WF_vars(FetchSettles)

\* The two Log Treatment forms under every session that reaches one of them.
TreatInit ==
    /\ SignedIn({u \in Users : u.role \in {"Receptionist", "Doctor", "Nurse", "WardBoy", "Admin"}})
    /\ CacheIdle

TreatNext ==
    \/ OpenLogTreatmentPage
    \/ treatmentEntry = "none" /\ OpenDetail
    \/ \E data \in {"null", "record"} : PatientFetchSucceed(data)
    \/ openLogTreatmentModal
    \/ onSubmitLogTreatmentPage
    \/ onSubmitLogTreatment
    \/ \E ok \in BOOLEAN : TreatmentPostSettles(ok)
    \/ closeTreatment

TreatSpec == TreatInit /\ [][TreatNext]_vars

\* Nobody is signed in: the login page.
SignedOut ==
    /\ isAuthenticated = FALSE
    /\ currentUser = NoUser
    /\ requested = LoginPath
    /\ location = LoginPath
    /\ view = "LoginPage"
    /\ build = "full"
    /\ sidebar = Null
    /\ dashboard = Null
    /\ redirects = 0
    /\ logoutCall = "idle"
    /\ authNotice = "none"
    /\ event = "init"

\* The staff-scoped views under every session, linked to a staff record or
\* not, and with nobody signed in.
StaffInit ==
    \/ SignedIn(Users) /\ CacheIdle
    \/ SignedOut /\ IdleWithKeys(InitialServer, "closed", UNION {AllKeys(u) : u \in Users})

StaffNext ==
    \/ \E user \in Users : Login(user)
    \/ \E v \in StaffViews : Mount(v)
    \/ \E f \in {"", "Scheduled", "Pending"} : SetFilter(f)
    \/ \E req \in Requests : FetchSucceed(req)
    \/ \E req \in Requests : FetchFail(req)
    \/ Revalidate

StaffSpec == StaffInit /\ [][StaffNext]_vars

\* A nurse's task views with every attempt of a fetch followed: the view sees
\* a fetch fail once its retries are used up.
RetryInit ==
    /\ SignedIn({[role |-> "Nurse", linkedStaffId |-> 1]})
    /\ CacheIdle

RetryNext ==
    \/ \E v \in TaskViews : Mount(v)
    \/ \E f \in FiltersOf("MyTasksPage") : SetFilter(f)
    \/ \E req \in Requests : FetchSucceed(req)
    \/ \E req \in Requests : FetchAttemptFails(req)
    \/ \E req \in Requests : failureCount[req] = retry /\ FetchFail(req)
    \/ Revalidate
    \/ \E m \in AvailableMutations : Mutate(m)
    \/ \E m \in mutations : MutationSucceed(m)
    \/ \E m \in mutations, err \in Errors : MutationFail(m, err)

RetrySpec == RetryInit /\ [][RetryNext]_vars

\* Every session the patient list's route lets in.
PatientListInit ==
    /\ SignedIn({u \in Users : CanMount("PatientListPage", "full", TRUE, u)})
    /\ CacheIdle

PatientListNext ==
    \/ Mount("PatientListPage")
    \/ \E req \in Requests : FetchSucceed(req)
    \/ \E req \in Requests : FetchFail(req)
    \/ Revalidate
    \/ \E m \in AvailableMutations : Mutate(m)
    \/ \E m \in mutations : MutationSucceed(m)
    \/ \E m \in mutations, err \in Errors : MutationFail(m, err)

PatientListSpec == PatientListInit /\ [][PatientListNext]_vars

\* A receptionist's session with the admission page either on screen or not.
FormInit ==
    /\ SignedIn({[role |-> "Receptionist", linkedStaffId |-> 0]})
    /\ \E page \in {"closed", "open"} : Idle(InitialServer, page)

\* The forms and dialogs a receptionist is offered, and the admission form.
FormNext ==
    \/ \E form \in Forms : openModal(form)
    \/ closeModal
    \/ \E f \in PatientFields \cup Fields("appointment") \cup {"status"},
          v \in Samples("phone_number") \cup Samples("email") \cup Samples("status"),
          revalidate \in BOOLEAN : changeField(f, v, revalidate)
    \/ handleSubmit
    \/ WriteSucceed
    \/ \E err \in {e \in Errors : e.hasResponse} : WriteFail(err)
    \/ \E onlyAvailable \in BOOLEAN : RoomsFetchSucceed(onlyAvailable)
    \/ \E v \in {""} \cup {ToString(r) : r \in RoomIds} : SelectRoom(v)
    \/ \E v \in {""} \cup {ToString(n) : n \in PatientIds} : handlePatientSelectionChange(v)
    \/ onSubmit
    \/ \E err \in {e \in Errors : e.hasResponse} : AdmitFail(err)

\* A receptionist's session before the admission page is opened.
AdmissionInit ==
    /\ SignedIn({[role |-> "Receptionist", linkedStaffId |-> 0]})
    /\ CacheIdle

\* The admission page, with other desks admitting and discharging meanwhile.
AdmissionNext ==
    \/ OpenAdmission
    \/ CloseAdmission
    \/ RefetchRooms
    \/ \E onlyAvailable \in BOOLEAN : RoomsFetchSucceed(onlyAvailable)
    \/ \E err \in Errors : RoomsFetchFail(err)
    \/ \E v \in {""} \cup {ToString(r) : r \in RoomIds} : SelectRoom(v)
    \/ \E v \in {""} \cup {ToString(n) : n \in PatientIds} : handlePatientSelectionChange(v)
    \/ onSubmit
    \/ AdmitSucceed
    \/ \E err \in Errors : AdmitFail(err)
    \/ \E r \in RoomIds : OtherAdmission(r)
    \/ \E r \in RoomIds : Discharge(r)

AdmissionSpec == AdmissionInit /\ [][AdmissionNext]_vars

FormSpec == FormInit /\ [][FormNext]_vars

\* A doctor on the schedule page.
ScheduleInit ==
    /\ SignedIn({[role |-> "Doctor", linkedStaffId |-> 1]})
    /\ CacheIdle

ScheduleNext ==
    \/ \E appt \in AppointmentIds : openStatusModal(appt)
    \/ closeStatusModal
    \/ \E v \in ScheduleStatuses \cup {""} : changeStatus(v)
    \/ handleStatusSubmit
    \/ onStatusSubmit
    \/ \E i \in 1..MaxWrites : StatusWriteSucceed(i)
    \/ \E i \in 1..MaxWrites : StatusWriteFail(i)

ScheduleSpec == ScheduleInit /\ [][ScheduleNext]_vars

\* Every session the patient routes let in, before the detail page is opened.
DetailInit ==
    /\ SignedIn({u \in Users : u.role \in {"Receptionist", "Doctor", "Nurse", "WardBoy", "Admin"}})
    /\ CacheIdle

DetailNext ==
    \/ OpenDetail
    \/ CloseDetail
    \/ RefocusDetail
    \/ \E data \in PatientData : PatientFetchSucceed(data)
    \/ PatientFetchFail
    \/ \E k \in DependentKeys, ok \in BOOLEAN : DependentFetchSettles(k, ok)
    \/ InvalidateTreatments

DetailSpec == DetailInit /\ [][DetailNext]_vars

\* A nurse or ward boy on the task list.
RowInit ==
    /\ SignedIn({u \in Users : u.role \in {"Nurse", "WardBoy"} /\ u.linkedStaffId # 0})
    /\ CacheIdle

RowNext ==
    \/ \E a \in TaskIds : ClickRow(a)
    \/ \E w \in rowWrites, ok \in BOOLEAN : RowWriteSettles(w, ok)

RowSpec == RowInit /\ [][RowNext]_vars

---------------------------------------------------------------------------
(* Properties of the dispatcher and the guard chain *)

Settled == view # "resolving"

ProtectedElements ==
    {AppRoutes[i].element : i \in {j \in 1..Len(AppRoutes) : AppRoutes[j].protected}}

\* C1: role dispatch is total.  Whenever the dashboard route is rendered, a
\* known role has a dashboard and a sidebar (neither is null), any other role
\* string has the "not yet configured" view and the placeholder sidebar, and
\* an absent currentUser yields the loading placeholder and no sidebar.
RoleDispatchTotal ==
    /\ view = "DashboardDispatcher" =>
         /\ currentUser.role \in KnownRoles =>
               /\ dashboard \notin {Null, "LoadingUserData"}
               /\ sidebar \notin {Null, "NoSpecificSidebar"}
         /\ currentUser.role \notin KnownRoles =>
               /\ dashboard = "DashboardNotConfigured"
               /\ sidebar = "NoSpecificSidebar"
    /\ Dispatch(build, NoUser) = "LoadingUserData"
    /\ renderSidebar(isAuthenticated, NoUser) = Null

RoleDispatchTotalWitness ==
    /\ view = "DashboardDispatcher"
    /\ currentUser.role = "Intern"
    /\ dashboard = "DashboardNotConfigured"
    /\ sidebar = "NoSpecificSidebar"

\* C2: for a route wrapped in a RoleBasedRoute with allowedRoles S, once the
\* navigation of an authenticated session has settled, a role outside S has
\* been redirected to /dashboard and sees the dashboard, not the route's
\* view, and a role in S sees the route's view with no redirect.
RoleGateDecides ==
    LET route == MatchRoute(requested)
    IN (Settled /\ isAuthenticated /\ route.gated) =>
          IF currentUser.role \in route.allowedRoles
          THEN view = route.element /\ location = requested /\ redirects = 0
          ELSE /\ location = DashboardPath
               /\ view = "DashboardDispatcher"
               /\ redirects = 1

RoleGateDecidesWitness ==
    /\ Settled
    /\ isAuthenticated
    /\ currentUser.role = "Nurse"
    /\ requested = <<"admin", "users">>
    /\ view = "DashboardDispatcher"

\* C3: an unauthenticated session that asks for a route mounted under
\* ProtectedRoute (unknown paths caught by the nested catch-all included)
\* ends on the login page after one redirect, and no authenticated view and
\* no sidebar is ever rendered for an unauthenticated session.
UnauthenticatedGoesToLogin ==
    /\ (Settled /\ ~isAuthenticated /\ MatchRoute(requested).protected) =>
          /\ location = LoginPath
          /\ view = "LoginPage"
          /\ redirects = 1
    /\ ~isAuthenticated => (view \notin ProtectedElements /\ sidebar = Null)

UnauthenticatedGoesToLoginWitness ==
    /\ Settled
    /\ ~isAuthenticated
    /\ requested = <<"nowhere">>
    /\ view = "LoginPage"

\* C4: the logout handler leaves the session cleared (currentUser absent,
\* isAuthenticated false) whatever the server-side logout call does; while
\* the session stays cleared every render of an authenticated route redirects
\* to /login, and only a successful login makes the session authenticated again.
LogoutClearsSession ==
    /\ [](event = "handleLogout" => (~isAuthenticated /\ currentUser = NoUser))
    /\ [](~isAuthenticated => view \notin ProtectedElements)
    /\ [][(~isAuthenticated /\ event' = "render" /\ MatchRoute(location).protected)
             => (location' = LoginPath /\ view' = "resolving")]_vars
    /\ [][(~isAuthenticated /\ isAuthenticated') => event' = "login"]_vars

LogoutClearsSessionWitness ==
    /\ logoutCall = "failed"
    /\ ~isAuthenticated
    /\ currentUser = NoUser
    /\ requested = <<"patients">>
    /\ view = "LoginPage"

---------------------------------------------------------------------------
(* Properties of the query cache and of the mutations *)

KeyOf(req) == QueryKey(req.view, currentUser, req.filter)

\* C5: cache entries are keyed by resource and serialized filter parameters,
\* and distinct keys coexist: whatever was fetched since, the entry under each
\* request's key holds the data of that request's last successful fetch, so a
\* fetch under K2 neither evicts nor overwrites what was fetched under K1.
DistinctKeysCoexist ==
    \A req \in Requests :
        lastSuccess[req].has =>
            /\ cache[KeyOf(req)].hasData
            /\ cache[KeyOf(req)].data = lastSuccess[req].data

\* Two fetches of one view under different filters have both completed, and
\* what they returned differs.
DistinctKeysCoexistWitness ==
    \E r1, r2 \in Requests :
        /\ r1.view = r2.view
        /\ r1.filter # r2.filter
        /\ lastSuccess[r1].has
        /\ lastSuccess[r2].has
        /\ lastSuccess[r1].data # lastSuccess[r2].data
        /\ cache[KeyOf(r1)].data = lastSuccess[r1].data
        /\ cache[KeyOf(r2)].data = lastSuccess[r2].data

\* C6 as stated: the collection a list view displays was always fetched under
\* the filter key currently selected, and is that key's last successful fetch.
DisplayedIsOfCurrentKey ==
    (mounted \in ListViews /\ Displayed.hasData) =>
        /\ Displayed.from = ActiveKey
        /\ Displayed.data = lastSuccess[ActiveRequest].data

\* C6 (amended): the collection a list view displays is the last successful
\* fetch for the filter key currently selected; or, in the views that keep the
\* previous data (patient list, doctor's schedule) and only while the selected
\* key has no data of its own, what the view displayed before the key changed.
\* A response for a key that is not the selected one never changes the display.
DisplayedIsCurrentOrKept ==
    /\ [](mounted \in ListViews /\ Displayed.hasData /\ Displayed.from = ActiveKey
            => /\ lastSuccess[ActiveRequest].has
               /\ Displayed.data = lastSuccess[ActiveRequest].data)
    /\ [][(mounted' \in ListViews /\ Displayed'.hasData /\ Displayed'.from # ActiveKey')
            => /\ mounted' \in {"PatientListPage", "MySchedulePage"}
               /\ mounted' = mounted
               /\ ~cache'[ActiveKey'].hasData
               /\ Displayed' = Displayed]_vars
    /\ [][(event' \in {"fetchSucceeded", "fetchFailed"} /\ mounted \in ListViews
             /\ (inflight \ inflight') \cap {ActiveRequest} = {})
            => Displayed' = Displayed]_vars

\* The selected key's fetch is still in flight, the view shows what it showed
\* under the previous key, and a fetch for that previous key is in flight too.
DisplayedIsCurrentOrKeptWitness ==
    /\ mounted \in ListViews
    /\ Displayed.hasData
    /\ Displayed.from # ActiveKey
    /\ ActiveRequest \in inflight
    /\ Cardinality(inflight) = 2

StatusKinds == {"updateStatus", "updateTaskStatus"}

ServerStatus(row) == IF row.kind = "task" THEN server.task.status ELSE server.appt.status

\* C7: after a status transition of a task or an appointment has succeeded,
\* every cache entry whose collection contains that entity returns the new
\* status (an entry the success path invalidated is being brought up to date
\* and is not counted).
StatusFreshInEveryKey ==
    (event = "mutationSucceeded" /\ toast.by.kind \in StatusKinds) =>
        \A k \in DOMAIN cache :
            (cache[k].hasData /\ ~cache[k].isInvalidated) =>
                \A row \in cache[k].data.rows :
                    row.kind \in {"task", "appointment"} => row.status = ServerStatus(row)

TodaysPrefix == "todaysAppointmentsForDoctor"

AppointmentPrefixes == {"appointments", "doctorAppointments", TodaysPrefix}

\* C8: every successful appointment status update, from Manage Appointments,
\* My Schedule or the doctor's dashboard, invalidates the list key of the view
\* for its current filters and the per-doctor today's-schedule key, and no key
\* of another resource.
StatusUpdateInvalidatesBoth ==
    (event = "mutationSucceeded" /\ toast.by.kind = "updateStatus") =>
        /\ \E p \in lastInvalidated : Head(p) = TodaysPrefix
        /\ toast.by.view \in {"ManageAppointmentsPage", "MySchedulePage"} =>
              \E p \in lastInvalidated :
                  IsPrefix(p, QueryKey(toast.by.view, currentUser, toast.by.filter))
        /\ \A p \in lastInvalidated : Head(p) \in AppointmentPrefixes

\* C9: when a create, update, delete, reschedule or status request fails, no
\* cache key is invalidated, refetched or modified: the failure leaves the
\* cache and the set of running fetches as they were.
FailedMutationLeavesCache ==
    [][event' = "mutationFailed" =>
          /\ cache' = cache
          /\ inflight' = inflight
          /\ lastInvalidated' = {}
          /\ obs' = obs]_vars

\* A write has failed while the cache held fetched data.
FailedMutationLeavesCacheWitness ==
    /\ event = "mutationFailed"
    /\ toast.kind = "error"
    /\ \E k \in DOMAIN cache : cache[k].hasData /\ cache[k].data.rows # {}

\* The response carries a message.
Carries(err) == err.hasResponse /\ err.serverMessage \notin {NoMessage, ""}

\* C10 as stated: the notification of a failed mutation is the server
\* response's message when the response carries one, and the view's generic
\* fallback string when it carries none.
FailureToastMessageOrFallback ==
    toast.kind = "error" =>
        toast.text = IF Carries(toast.cause) THEN toast.cause.serverMessage
                     ELSE Fallback(toast.by)

\* C10 (amended): the notification of a failed mutation is the server
\* response's message when the response carries one; when it carries none, it
\* is the view's generic fallback string, except on the appointment scheduler,
\* which shows the error's own message when it has one and its fallback string
\* otherwise.
FailureToastMessageOrOwnOrFallback ==
    toast.kind = "error" =>
        /\ Carries(toast.cause) => toast.text = toast.cause.serverMessage
        /\ (~Carries(toast.cause) /\ toast.by.view # "AppointmentSchedulerPage") =>
              toast.text = Fallback(toast.by)
        /\ (~Carries(toast.cause) /\ toast.by.view = "AppointmentSchedulerPage") =>
              toast.text = IF toast.cause.message # "" THEN toast.cause.message
                           ELSE Fallback(toast.by)

\* Scheduling failed with a response that has no message.
FailureToastMessageOrOwnOrFallbackWitness ==
    /\ toast.kind = "error"
    /\ toast.by.view = "AppointmentSchedulerPage"
    /\ toast.cause.hasResponse
    /\ toast.cause.serverMessage = NoMessage

---------------------------------------------------------------------------
(* Properties of the patient search *)

SearchRequest(term) == [view |-> "PatientListPage", filter |-> term]

\* C11 as stated: while the search field keeps changing within the delay no
\* fetch is issued, and when the timer runs out after several changes exactly
\* one fetch is issued, for the last term.
SearchDebouncedOneFetch ==
    /\ [][event' = "type" => UNCHANGED <<inflight, started, filter>>]_vars
    /\ [][(event' = "timer" /\ changes >= 2) =>
             /\ filter' = searchTerm
             /\ started' = started + 1
             /\ inflight' \ inflight = {SearchRequest(searchTerm)}]_vars

\* C11 (amended): while the search field keeps changing within the delay no
\* fetch is issued for any intermediate term; when the timer runs out the last
\* term takes effect with at most one fetch: exactly one, for the last term,
\* when it differs from the term in effect before the typing and no fetch for
\* it is running already, and none otherwise.
SearchDebouncedAtMostOneFetch ==
    /\ [][event' = "type" => UNCHANGED <<inflight, started, filter, cache>>]_vars
    /\ [][event' = "timer" =>
             /\ filter' = searchTerm
             /\ IF searchTerm # filter /\ SearchRequest(searchTerm) \notin inflight
                THEN /\ started' = started + 1
                     /\ inflight' = inflight \cup {SearchRequest(searchTerm)}
                ELSE UNCHANGED <<inflight, started>>]_vars

\* "Jane" then "Jane D" were typed within the delay and the timer has run out:
\* the fetch for "Jane D" is running and none was ever issued for "Jane".
SearchDebouncedAtMostOneFetchWitness ==
    /\ event = "timer"
    /\ changes >= 2
    /\ searchTerm = "Jane D"
    /\ filter = "Jane D"
    /\ SearchRequest("Jane D") \in inflight
    /\ SearchRequest("Jane") \notin inflight
    /\ ~lastSuccess[SearchRequest("Jane")].has
    /\ cache[QueryKey("PatientListPage", currentUser, "Jane")] = EmptyEntry

---------------------------------------------------------------------------
(* Properties of the row actions *)

OfferedStatuses == {m.input : m \in AvailableMutations}

\* The last write to settle was a successful Start Consultation and the
\* dashboard shows the list as fetched again since.
ConsultationStartedAndReread ==
    /\ mounted = "DoctorDashboardPage"
    /\ toast.kind = "success"
    /\ toast.by.view = "DoctorDashboardPage"
    /\ toast.by.input = "In Progress"
    /\ Displayed.hasData
    /\ ~cache[ActiveKey].isInvalidated

\* C12: on the doctor's dashboard an appointment shown as Checked-In offers
\* Start, which sends status In Progress; once that update has succeeded and
\* the list has been read again, the appointment is shown In Progress, Start
\* is no longer offered and Complete is.
StartReplacedByComplete ==
    /\ (mounted = "DoctorDashboardPage" /\ "Checked-In" \in ShownStatuses) =>
          Mutation(mounted, "updateStatus", filter, "In Progress") \in AvailableMutations
    /\ ConsultationStartedAndReread =>
          /\ ShownStatuses = {"In Progress"}
          /\ OfferedStatuses = {"Completed"}

\* Start was invoked, succeeded, and the refetched list is on screen.
StartReplacedByCompleteWitness ==
    /\ ConsultationStartedAndReread
    /\ ActiveRequest \notin inflight
    /\ server.appt.status = "In Progress"

\* C13: on the task views the only status updates the client can issue are
\* In Progress for a task displayed as Pending and Completed for a task
\* displayed as In Progress; a Completed request carries end_datetime set to
\* the second of the click, an In Progress request carries no end_datetime.
TaskTransitionsOnly ==
    /\ mounted \in TaskViews =>
          \A m \in AvailableMutations :
              \/ m.input = "In Progress" /\ "Pending" \in ShownStatuses
              \/ m.input = "Completed" /\ "In Progress" \in ShownStatuses
    /\ (event = "mutate" /\ mounted \in TaskViews) =>
          /\ sent.status \in {"In Progress", "Completed"}
          /\ sent.status = "Completed" =>
                sent.hasEnd /\ sent.end_datetime = clock \div TicksPerSecond
          /\ sent.status = "In Progress" => ~sent.hasEnd

\* A task shown as In Progress has just been completed, after the clock moved.
TaskTransitionsOnlyWitness ==
    /\ event = "mutate"
    /\ mounted \in TaskViews
    /\ sent.status = "Completed"
    /\ sent.end_datetime = 1
    /\ clock >= TicksPerSecond

---------------------------------------------------------------------------
(* Admission room selection *)

---------------------------------------------------------------------------
(* Retries *)

\* Steps the user takes: opening a view, changing a filter, submitting a write.
UserActions == {"mount", "setFilter", "mutate"}

\* The step sends the request req again after a failure: a failed attempt is
\* followed by another one, or the key whose last fetch failed is fetched anew.
Reissued(req) ==
    \/ failureCount'[req] > failureCount[req]
    \/ /\ req \in inflight' \ inflight
       /\ cache[QueryKey(req.view, currentUser, req.filter)].error

\* C15 as stated: after a fetch or a write fails, its request is sent again only
\* by a step the user takes.
NothingRetriedAutomatically ==
    /\ [][\A req \in Requests : Reissued(req) => event' \in UserActions]_vars
    /\ [][issued' # issued => event' \in UserActions]_vars

\* C15: a write is never sent again by itself: a write request goes out only
\* when the user submits it, and a failed write settles without sending anything.
\* A fetch is: a failed attempt is repeated by the query client up to retry
\* times before the view sees the failure, and afterwards the key is requested
\* again by revalidation and by the invalidation after a write, as well as by
\* the user.
OnlyFetchesRetriedAutomatically ==
    /\ [][issued' # issued => event' = "mutate"]_vars
    /\ [][event' = "mutationFailed" =>
             /\ Cardinality(mutations') < Cardinality(mutations)
             /\ mutations' \subseteq mutations
             /\ UNCHANGED <<inflight, failureCount, issued>>]_vars
    /\ [][\A req \in Requests :
             Reissued(req) =>
                 event' \in UserActions \cup {"retry", "revalidate", "mutationSucceeded"}]_vars
    /\ [](\A req \in Requests : failureCount[req] <= retry)
    /\ [][event' = "fetchFailed" =>
             /\ inflight' \subseteq inflight
             /\ \E req \in inflight \ inflight' : failureCount[req] = retry]_vars

\* A write has failed while a fetch is on a repeated attempt.
OnlyFetchesRetriedAutomaticallyWitness ==
    /\ event = "mutationFailed"
    /\ \E req \in inflight : failureCount[req] > 0

---------------------------------------------------------------------------
(* Read failures *)

\* C16: when the read behind the list view on screen has failed, the view
\* renders its error panel: neither the table nor the "nothing found" panel.
ReadFailureRendersErrorState ==
    (mounted \in ListViews /\ obs.error) => Rendered = "error"

---------------------------------------------------------------------------
(* Validation on submit *)

\* The value v of field f breaks a rule of the form: it is required and empty,
\* or it is not empty and does not have the shape its pattern asks for.
Breaks(form, f, v) ==
    \/ f \notin {"email", "reason"} /\ v = Empty
    \/ f = "phone_number" /\ v # Empty /\ ~phonePattern(v)
    \/ f = "email" /\ v # Empty /\ ~emailPattern(v)

Broken == {f \in Fields(modal) : Breaks(modal, f, fields[f])}

---------------------------------------------------------------------------
(* Rejected writes *)

\* C18 as stated: when the server rejects a write, the form or dialog that
\* sent it stays open with its values and its entity; only a notification is
\* raised.
RejectedWriteLeavesFormOpen ==
    /\ [][event' = "writeFailed" =>
             /\ UNCHANGED <<modal, fields, fieldErrors, editing>>
             /\ modalToast'.kind = "error"]_vars
    /\ [][event' = "admitFailed" =>
             /\ UNCHANGED <<admissionPage, values, errors, roomsData>>
             /\ notice'.kind = "error"]_vars

\* C18: when the server rejects a write, the entered values and the selected
\* entity are unchanged and a notification is raised; the form or dialog that
\* sent the write stays open, except the delete confirmation dialog, which the
\* failure closes.
RejectedWriteLeavesFormOpenUnlessDelete ==
    /\ [][event' = "writeFailed" =>
             /\ UNCHANGED <<fields, fieldErrors, editing>>
             /\ modal' = IF posted.form = "deletePatient" THEN "none" ELSE modal
             /\ modalToast'.kind = "error"]_vars
    /\ [][event' = "admitFailed" =>
             /\ UNCHANGED <<admissionPage, values, errors, roomsData>>
             /\ notice'.kind = "error"]_vars

\* The server has rejected an edit of the patient: the edit form is still open
\* on that patient with the values that were sent.
RejectedWriteLeavesFormOpenUnlessDeleteWitness ==
    /\ event = "writeFailed"
    /\ posted.form = "editPatient"
    /\ modal = "editPatient"
    /\ editing = "patient"
    /\ fields["first_name"] = Filled
    /\ modalToast.kind = "error"

---------------------------------------------------------------------------
(* Patient list controls *)

PatientWrites == {"createPatient", "updatePatient", "deletePatient"}

\* The writes the controls on screen can start.
OfferedWrites == {m.kind : m \in AvailableMutations}

\* C19: on the patient list a session that is neither Admin nor Receptionist is
\* offered no Register, Edit or Delete control and has no patient write of its
\* own under way; an Admin or Receptionist session is offered Register, and
\* Edit and Delete on the patients listed.
PatientControlsByRole ==
    mounted = "PatientListPage" =>
        IF currentUser.role \in {"Admin", "Receptionist"}
        THEN /\ "createPatient" \in OfferedWrites
             /\ Displayed.data.rows # {} => PatientWrites \subseteq OfferedWrites
        ELSE /\ OfferedWrites = {}
             /\ \A m \in mutations : m.kind \notin PatientWrites
             /\ issued = 0

\* An Admin's delete of a listed patient is under way.
PatientControlsByRoleWitness ==
    /\ mounted = "PatientListPage"
    /\ currentUser.role = "Admin"
    /\ Displayed.data.rows # {}
    /\ \E m \in mutations : m.kind = "deletePatient"

---------------------------------------------------------------------------
(* Order of the gates *)

\* The gates rendered for the current location.
GatesRun ==
    LET route == MatchRoute(location)
        ran == Evaluated(GuardChain(route), route, isAuthenticated, currentUser)
    IN {ran[i] : i \in 1..Len(ran)}

\* C20: around every role-restricted route ProtectedRoute comes first and the
\* RoleBasedRoute second, and the first gate that redirects decides: a render
\* of a role-restricted route for an unauthenticated session redirects to
\* /login, an unauthenticated session is never sent to /dashboard, and the role
\* check is never run for an absent user.
GatesInOrder ==
    /\ [](\A i \in 1..Len(AppRoutes) :
             AppRoutes[i].gated =>
                 GuardChain(AppRoutes[i]) = <<"ProtectedRoute", "RoleBasedRoute">>)
    /\ [](currentUser = NoUser => "RoleBasedRoute" \notin GatesRun)
    /\ [](~isAuthenticated => "RoleBasedRoute" \notin GatesRun)
    /\ [][(~isAuthenticated /\ event' = "render" /\ MatchRoute(location).gated) =>
             /\ location' = LoginPath
             /\ redirects' = redirects + 1]_vars
    /\ [][(~isAuthenticated /\ location' # location /\ event' = "render") =>
             location' # DashboardPath]_vars

\* An unauthenticated session asked for an Admin-only route and was sent to
\* the login page by the first gate.
GatesInOrderWitness ==
    /\ Settled
    /\ ~isAuthenticated
    /\ currentUser = NoUser
    /\ requested = <<"admin", "users">>
    /\ location = LoginPath
    /\ redirects = 1

---------------------------------------------------------------------------
(* One write per form *)

\* The forms and dialogs that send a write.
WritingForms == Forms \cup {"admission", "scheduleStatus"}

\* The writes a form has sent that still await their response.
InFlight(form) ==
    CASE form = "scheduleStatus" -> Len(statusWrites)
      [] form = "admission"      -> IF admitPatientMutation.isLoading THEN 1 ELSE 0
      [] OTHER                   -> IF pending /\ posted.form = form THEN 1 ELSE 0

\* C21: in every form and dialog that writes, the submit control is disabled
\* from the moment a write is issued until it settles: no form sends a write
\* while one of its own is in flight, so at most one write of a form is in
\* flight at any time.
SubmitDisabledWhileInFlight ==
    /\ [](\A form \in WritingForms : InFlight(form) <= 1)
    /\ [](statusWrites # <<>> => StatusSubmitDisabled)
    /\ [][\A form \in WritingForms :
             InFlight(form) > 0 => InFlight(form)' <= InFlight(form)]_vars

---------------------------------------------------------------------------
(* Dependent fetches of the patient detail view *)

\* C22: on the patient detail view a fetch of the patient's appointments or
\* treatments is issued only while the patient query holds a record, so never
\* before a patient fetch has answered with one; as long as every patient
\* fetch has failed or returned nothing, no dependent fetch has been issued.
DependentsAfterPatient ==
    /\ [](~patientLoaded => dependentsIssued = {})
    /\ [](~patientLoaded => \A k \in DependentKeys : ~dependents[k].fetching)
    /\ [][Started(dependents, dependents') # {} => patientQuery'.data = "record"]_vars

\* The patient loaded and both dependent lists were fetched after it.
DependentsAfterPatientWitness ==
    /\ detailPage = "open"
    /\ patientQuery.data = "record"
    /\ dependentsIssued = DependentKeys
    /\ \A k \in DependentKeys : dependents[k].hasData

---------------------------------------------------------------------------
(* Navigation settles *)

\* C23: whatever the session and the requested path, the gates and the
\* catch-all routes lead to a rendered page: a navigation goes through at most
\* two redirects, the redirects still ahead of the current location never take
\* it beyond two (no cycle), and every navigation that is being resolved ends
\* on a rendered page.
NavigationSettles ==
    /\ [](redirects <= 2)
    /\ [](redirects + Hops(location, isAuthenticated, currentUser, MaxRedirects) <= 2)
    /\ [](~Settled => ENABLED Render)
    /\ (~Settled) ~> Settled

\* A session whose role no dashboard is written for asked for a path no route
\* defines and was brought to the dashboard by the catch-all.
NavigationSettlesWitness ==
    /\ Settled
    /\ isAuthenticated
    /\ currentUser.role = "Intern"
    /\ requested = <<"nowhere">>
    /\ location = DashboardPath
    /\ view = "DashboardDispatcher"
    /\ redirects = 1

---------------------------------------------------------------------------
(* Sidebar links *)

\* C24: every link of the sidebar chosen for a role targets a defined route
\* that admits the role: following it renders that route's own page, without
\* the catch-all's or a role gate's redirect to /dashboard.
SidebarLinksReachTheirPage ==
    /\ [][event' = "followLink" =>
             /\ MatchRoute(requested').element # NavigateToDashboard
             /\ Resolve(requested', isAuthenticated, currentUser) = Allow]_vars
    /\ [][(event = "followLink" /\ event' = "render") =>
             /\ location' = requested
             /\ view' = MatchRoute(requested).element
             /\ redirects' = 0]_vars

---------------------------------------------------------------------------
(* The task list of every admitted role *)

\* C25: for every role the route admits to /assignments/my-tasks, a session
\* with a token and a linkedStaffId has its task query enabled, and the page,
\* once shown, leaves the loading state.
AdmittedRoleGetsTasks ==
    /\ [](mounted = "MyTasksPage" /\ HasToken /\ currentUser.linkedStaffId # 0
            => Enabled("MyTasksPage", isAuthenticated, currentUser))
    /\ (mounted = "MyTasksPage" /\ HasToken /\ currentUser.linkedStaffId # 0)
          ~> (mounted # "MyTasksPage" \/ Rendered # "loading")

---------------------------------------------------------------------------
(* One status update per row *)

\* The updates of a row that await their response.
PendingFor(a) == {w \in rowWrites : w.assignmentId = a}

\* C26: at most one status update per task is in flight at any time: while
\* an update of a row is pending the row's button is disabled, also after an
\* update of another row was triggered.
OneStatusUpdatePerRow ==
    /\ \A a \in TaskIds : Cardinality(PendingFor(a)) <= 1
    /\ \A a \in TaskIds : PendingFor(a) # {} => RowDisabled(a)

---------------------------------------------------------------------------
(* Staff-scoped fetches and the Profile Not Linked notice *)

\* A role needs a link for a view when a link is what enables the view's query
\* for a session of that role.
NeedsLink(v, role) ==
    \E id \in StaffIds : Enabled(v, TRUE, [role |-> role, linkedStaffId |-> id])

\* The session lacks the token or the link to a staff record.
Unlinked == ~HasToken \/ currentUser.linkedStaffId = 0

\* C27: no fetch of a staff-scoped view (my tasks, active assignments, the
\* doctor's schedule, the doctor's appointments today) is issued while the token
\* or the session's linkedStaffId is absent: the query is disabled, nothing is in
\* flight or cached for it, and for the roles that need a link the view shows
\* the Profile Not Linked notice.
NoStaffFetchWithoutLink ==
    /\ [][\A req \in inflight' \ inflight :
             req.view \in StaffViews =>
                 /\ HasToken /\ currentUser.linkedStaffId # 0
                 /\ HasToken' /\ currentUser'.linkedStaffId # 0]_vars
    /\ [][Unlinked /\ Unlinked' => started' = started]_vars
    /\ [](mounted \in StaffViews /\ Unlinked =>
             /\ ~Enabled(mounted, isAuthenticated, currentUser)
             /\ ActiveRequest \notin inflight
             /\ ~obs.hasData)
    /\ [](mounted \in StaffViews /\ isAuthenticated /\ currentUser.linkedStaffId = 0
             /\ NeedsLink(mounted, currentUser.role) =>
                 ProfileNotLinked(mounted, currentUser))

\* A ward boy whose account has no staff link opens My Tasks: no fetch has
\* started and the notice is on screen.
NoStaffFetchWithoutLinkWitness ==
    /\ mounted = "MyTasksPage"
    /\ currentUser = [role |-> "WardBoy", linkedStaffId |-> 0]
    /\ event = "mount"
    /\ started = 0
    /\ inflight = {}
    /\ ProfileNotLinked(mounted, currentUser)

---------------------------------------------------------------------------
(* Treatments and the staff link *)

\* C28 as stated: a treatment-creation request is never sent for a user without
\* linkedStaffId (doctor_id missing or not a number), whatever the role and
\* from either entry point; such a submit is rejected on the client.
NoTreatmentWithoutLink ==
    /\ \A i \in 1..Len(treatmentPosts) : treatmentPosts[i].doctor_id # NaN
    /\ currentUser.linkedStaffId = 0 => treatmentPosts = <<>>
    /\ event = "submitTreatment" /\ currentUser.linkedStaffId = 0 =>
           treatmentToast = "not-linked"

---------------------------------------------------------------------------
(* The sidebar and the dashboard of a role *)

\* The sidebar and the dashboard made for each role.
RolePairs ==
    {<<"AdminSidebar", "AdminDashboardPage">>,
     <<"DoctorSidebar", "DoctorDashboardPage">>,
     <<"NurseSidebar", "NurseDashboardPage">>,
     <<"ReceptionistSidebar", "ReceptionistDashboardPage">>,
     <<"WardBoySidebar", "WardBoyDashboardPage">>,
     <<"BillingStaffSidebar", "BillingStaffDashboardPage">>}

\* C29 as stated: on the dashboard route the layout shows a role's sidebar
\* exactly when the dispatcher shows that role's dashboard, and the placeholder
\* sidebar exactly when the dispatcher shows "dashboard not yet configured".
SidebarAgreesWithDashboard ==
    (view = "DashboardDispatcher" /\ isAuthenticated /\ currentUser # NoUser) =>
        /\ \A p \in RolePairs : sidebar = p[1] <=> dashboard = p[2]
        /\ sidebar = "NoSpecificSidebar" <=> dashboard = "DashboardNotConfigured"

====
